---- MODULE Spec2Model ----
(***************************************************************************)
(* Eve Online crash monitor (src/python/eve_crash_monitor.py): the         *)
(* orchestrator (start_monitoring / stop_monitoring), the process watcher  *)
(* loop (monitor_processes), the log file watcher loop (monitor_log_files) *)
(* and the event sink (log_crash_event / generate_report).                 *)
(*                                                                         *)
(* Every watcher loop is a daemon thread.  The model gives each thread a   *)
(* program counter and steps it between the points where the code blocks   *)
(* (OS calls, file I/O, sleep), where another thread can run.  Variables   *)
(* named g_... are history variables: they record what happened and are    *)
(* read by no action's guard or assignment of program state.               *)
(*                                                                         *)
(* Text (file names, file content, patterns) is a sequence of one-         *)
(* character strings, so that substring tests, lower-casing and splitting  *)
(* are computed as Python computes them.                                   *)
(***************************************************************************)
EXTENDS Integers, Sequences, FiniteSets, TLC

(* ------------------------------ bounds -------------------------------- *)

\* Loop instances (threads) each watcher can get over the run, that is the
\* number of start_monitoring calls that spawn threads.
MaxLoops == 2

\* The clock advances at most this many times.
MaxTicks == 3

\* OS process ids 1..MaxPid of the monitored executable.
MaxPid == 1

\* The process watcher hands at most this many records to the sink.
MaxRecords == 2

\* The monitored application changes the log files at most this many times.
MaxFileEvents == 2

\* Each of the two concurrent callers of the sink appends at most this many
\* records.
MaxAppends == 2

\* The OS writes at most this many entries to the Application event log.
MaxEvents == 1

\* The records appended to the output file before a report is made of it.
MaxReportRecords == 3

\* A write of the output file that fails has written nothing, or this many
\* lines of the entry.
PartialLen == 4

\* The characters LogLiteClient.log puts into one message: 255 in the
\* source (lines 91-103), scaled down.
ChunkSize == 3

\* The longest message passed to LogLiteClient.log, in characters.
MaxMessage == 7

(* ------------------------- program constants -------------------------- *)

\* default_config["check_interval"], the sleep between two process polls.
check_interval == 5

\* default_config["crash_detection_threshold"].
crash_detection_threshold == 30

\* time.sleep(5) in the except branch of monitor_processes.
error_sleep == 5

\* time.sleep(10) at the end of a monitor_log_files cycle.
log_file_sleep == 10

\* time.sleep(30) at the end of a monitor_event_logs cycle.
event_log_sleep == 30

\* timedelta(minutes=5), in seconds: how far back the first event-log poll
\* of a loop looks.
event_lookback == 300

\* The clock is read every second process poll interval.
ClockStep == 2 * check_interval

MaxTime == MaxTicks * ClockStep

\* The values proc.memory_info().rss takes in the model (bytes).
MemVals == {1048576}

VARIABLES
    config,         \* self.config: the three enable flags
    psutil_available, \* module global: import psutil succeeded
    win32_available,  \* module global: import win32evtlog succeeded
    sinkDir,        \* environment: the directory of the output file exists
    warned,         \* the logger: "Monitoring is already running" was logged
    monitoring,     \* self.monitoring
    emitted,        \* the crash_data dicts handed to log_crash_event, in order
    now,            \* the wall clock, datetime.now(), in seconds
    eve_processes,  \* self.eve_processes: pid -> tracking entry
    ploop,          \* the monitor_processes threads: slot -> thread state
    osProcs,        \* environment: the matching processes alive in the OS
    g_removed,      \* history: the record counts of the entries deleted so far
    tloop,          \* the monitor_log_files threads: slot -> thread state,
                    \*   file_positions (a local of the function) included
    files,          \* environment: log file name -> content
    fileEvents,     \* number of changes made to the log files so far
    g_fresh,        \* history: files polled to the end and unchanged since
    g_high,         \* history: file -> highest offset checkpointed for it
    sinkFile,       \* the output file of log_crash_event, as lines
    writers,        \* the two concurrent callers of log_crash_event
    report,         \* what generate_report returned last
    g_appended,     \* history: number of log_crash_event calls completed
    sinkErrors,     \* the logger: "Error logging crash event" messages logged
    eloop,          \* the monitor_event_logs threads: slot -> thread state,
                    \*   last_check (a local of the function) included
    eventLog,       \* environment: the entries of the Application event log
    loglite         \* a LogLiteClient, its call of log and what its socket sent

procVars == <<eve_processes, ploop, osProcs, g_removed>>
tailVars == <<tloop, files, fileEvents, g_fresh, g_high>>
sinkVars == <<sinkFile, writers, report, g_appended, sinkErrors>>
evtVars == <<eloop, eventLog>>
vars == <<loglite, config, psutil_available, win32_available, sinkDir, warned, monitoring, emitted, now, procVars, tailVars,
          sinkVars, evtVars>>

Pids == 1..MaxPid

Slots == 1..MaxLoops

\* The lowest slot no thread was spawned in yet (0: none left).
FreeSlot(loops) ==
    IF \E s \in Slots : loops[s].pc = "none"
    THEN CHOOSE s \in Slots : loops[s].pc = "none"
                              /\ \A r \in Slots : loops[r].pc = "none" => s <= r
    ELSE 0

(* ---------------------- the process watcher loop ---------------------- *)

\* A process thread slot before its thread is spawned.  g_cont is history:
\* the pids the current cycle enumerated and found tracked already, with
\* the start_time their entries had then.
NoProcThread == [pc |-> "none", snapshot |-> {}, terminated |-> {}, cur |-> 0,
                 wake |-> 0, g_enum_failed |-> FALSE, g_cont |-> <<>>]

\* The pids of an enumeration that are tracked already, with the start_time
\* of their entries (history).
Continued(snapshot) ==
    [p \in snapshot \cap DOMAIN eve_processes |-> eve_processes[p].start_time]

\* A seeded defect of the comparison below: <= in place of <.
SuspectedCrashInclusive(runtime, threshold) == runtime <= threshold

\* monitor_processes, line 202: the verdict of one termination.
SuspectedCrash(runtime, threshold) == runtime < threshold

\* monitor_processes, lines 192-203: the crash_data dict of one terminated
\* pid.  g_early and g_enum_failed are history, not program data: whether
\* the emitting cycle had already enumerated the process table when the pid
\* was inserted, and whether its enumeration had failed.
TerminationRecord(pid, entry, t) ==
    [type            |-> "process_termination",
     timestamp       |-> now,
     pid             |-> pid,
     runtime_seconds |-> now - entry.start_time,
     start_time      |-> entry.start_time,
     end_time        |-> now,
     memory_usage_mb |-> entry.memory_usage \div (1024 * 1024),
     suspected_crash |-> SuspectedCrash(now - entry.start_time,
                                        crash_detection_threshold),
     g_early         |-> t \in entry.g_early,
     g_enum_failed   |-> ploop[t].g_enum_failed]

\* The threads that are past the enumeration of their current cycle.
MidCycle == {s \in Slots : ploop[s].pc \in {"arrive", "term", "del"}}

\* monitor_processes without psutil (lines 162-164): the thread logs
\* "Process monitoring disabled" and returns before its loop.
PUnavailable(t) ==
    /\ ~psutil_available
    /\ ploop[t].pc = "sleep"
    /\ ploop' = [ploop EXCEPT ![t].pc = "disabled"]
    /\ UNCHANGED <<loglite, config, psutil_available, win32_available, sinkDir, warned,
                   evtVars, monitoring, emitted, now, eve_processes, osProcs,
                   g_removed, tailVars, sinkVars>>

\* One pass of "while self.monitoring:" (line 166) once time.sleep has
\* returned, and current_processes = self.get_running_eve_processes()
\* (lines 168-169).  A thread that reads the flag False leaves the loop.
PBegin(t) ==
    /\ psutil_available
    /\ ploop[t].pc = "sleep"
    /\ now >= ploop[t].wake
    /\ IF monitoring
       THEN /\ ploop' = [ploop EXCEPT ![t].pc = "arrive", ![t].wake = 0,
                                      ![t].snapshot = osProcs,
                                      ![t].g_enum_failed = FALSE,
                                      ![t].g_cont = Continued(osProcs)]
            /\ eve_processes' = [p \in DOMAIN eve_processes |->
                    [eve_processes[p] EXCEPT !.g_early = @ \ {t}]]
       ELSE /\ ploop' = [ploop EXCEPT ![t].pc = "exited", ![t].wake = 0]
            /\ UNCHANGED eve_processes
    /\ UNCHANGED <<loglite, config, psutil_available, win32_available, sinkDir, warned, evtVars, monitoring, emitted, now, osProcs, g_removed, tailVars, sinkVars>>

\* A seeded defect of PEnumFail: the failed enumeration ends the
\* monitoring session.
PEnumFailStops(t) ==
    /\ ploop[t].pc = "sleep"
    /\ now >= ploop[t].wake
    /\ monitoring
    /\ osProcs # {}
    /\ monitoring' = FALSE
    /\ ploop' = [ploop EXCEPT ![t].pc = "exited", ![t].wake = 0]
    /\ UNCHANGED <<loglite, config, psutil_available, win32_available, sinkDir, warned, evtVars, emitted, now, eve_processes,
                   osProcs, g_removed, tailVars, sinkVars>>

\* get_running_eve_processes, lines 144-156: psutil.process_iter raises
\* while the table is being read.  The exception is swallowed and the
\* processes appended so far are returned as if they were the whole table.
PEnumFail(t) ==
    /\ psutil_available
    /\ ploop[t].pc = "sleep"
    /\ now >= ploop[t].wake
    /\ monitoring
    /\ \E partial \in (SUBSET osProcs) \ {osProcs} :
          ploop' = [ploop EXCEPT ![t].pc = "arrive", ![t].wake = 0,
                                 ![t].snapshot = partial,
                                 ![t].g_enum_failed = TRUE,
                                 ![t].g_cont = Continued(partial)]
    /\ eve_processes' = [p \in DOMAIN eve_processes |->
            [eve_processes[p] EXCEPT !.g_early = @ \ {t}]]
    /\ UNCHANGED <<loglite, config, psutil_available, win32_available, sinkDir, warned, evtVars, monitoring, emitted, now, osProcs,
                   g_removed, tailVars, sinkVars>>

\* Lines 171-186: track every present pid that is not tracked yet.
Tracked(entries, snapshot, mem) ==
    [p \in DOMAIN entries \cup snapshot |->
        IF p \in DOMAIN entries THEN entries[p]
        ELSE [start_time   |-> now,
              last_seen    |-> now,
              memory_usage |-> mem[p],
              cpu_usage    |-> 0,
              g_records    |-> 0,
              g_early      |-> MidCycle]]

\* Line 189: terminated_pids = set(self.eve_processes.keys()) - current_pids.
TerminatedPids(entries, snapshot) == DOMAIN entries \ snapshot

PArrive(t) ==
    /\ ploop[t].pc = "arrive"
    /\ \E mem \in [ploop[t].snapshot \ DOMAIN eve_processes -> MemVals] :
          /\ eve_processes' = Tracked(eve_processes, ploop[t].snapshot, mem)
          /\ ploop' = [ploop EXCEPT
                ![t].pc = "term",
                ![t].terminated = TerminatedPids(eve_processes', ploop[t].snapshot)]
    /\ UNCHANGED <<loglite, config, psutil_available, win32_available, sinkDir, warned, evtVars, monitoring, emitted, now, osProcs, g_removed, tailVars, sinkVars>>

\* Lines 190-205 for one pid of terminated_pids: look the entry up, build
\* the record, hand it to log_crash_event.  A pid another thread deleted
\* raises KeyError, which the loop's except branch (lines 226-228) catches.
PTerminate(t) ==
    /\ ploop[t].pc = "term"
    /\ ploop[t].terminated # {}
    /\ Len(emitted) < MaxRecords
    /\ \E pid \in ploop[t].terminated :
          IF pid \in DOMAIN eve_processes
          THEN /\ emitted' = Append(emitted,
                        TerminationRecord(pid, eve_processes[pid], t))
               /\ eve_processes' = [eve_processes EXCEPT ![pid].g_records = @ + 1]
               /\ ploop' = [ploop EXCEPT ![t].pc = "del", ![t].cur = pid]
          ELSE /\ ploop' = [ploop EXCEPT ![t].pc = "sleep", ![t].terminated = {},
                                         ![t].snapshot = {},
                                         ![t].wake = now + error_sleep,
                                         ![t].g_enum_failed = FALSE,
                                      ![t].g_cont = <<>>]
               /\ UNCHANGED <<emitted, eve_processes>>
    /\ UNCHANGED <<loglite, config, psutil_available, win32_available, sinkDir, warned, evtVars, monitoring, now, osProcs, g_removed, tailVars, sinkVars>>

\* del self.eve_processes[pid] (line 212).
Untrack(entries, pid) == [p \in DOMAIN entries \ {pid} |-> entries[p]]

PDelete(t) ==
    /\ ploop[t].pc = "del"
    /\ IF ploop[t].cur \in DOMAIN eve_processes
       THEN /\ eve_processes' = Untrack(eve_processes, ploop[t].cur)
            /\ g_removed' = g_removed \cup {eve_processes[ploop[t].cur].g_records}
            /\ ploop' = [ploop EXCEPT ![t].pc = "term", ![t].cur = 0,
                                      ![t].terminated = @ \ {ploop[t].cur}]
       ELSE /\ ploop' = [ploop EXCEPT ![t].pc = "sleep", ![t].cur = 0,
                                      ![t].terminated = {}, ![t].snapshot = {},
                                      ![t].wake = now + error_sleep,
                                         ![t].g_enum_failed = FALSE,
                                      ![t].g_cont = <<>>]
            /\ UNCHANGED <<eve_processes, g_removed>>
    /\ UNCHANGED <<loglite, config, psutil_available, win32_available, sinkDir, warned, evtVars, monitoring, emitted, now, osProcs, tailVars, sinkVars>>

\* Lines 214-224: refresh the entries of the pids still present, then
\* time.sleep(check_interval).
PUpdate(t) ==
    /\ ploop[t].pc = "term"
    /\ ploop[t].terminated = {}
    /\ LET present == ploop[t].snapshot \cap DOMAIN eve_processes
       IN \E mem \in [present -> MemVals] :
            eve_processes' = [p \in DOMAIN eve_processes |->
                IF p \in present
                THEN [eve_processes[p] EXCEPT !.last_seen = now,
                                              !.memory_usage = mem[p]]
                ELSE eve_processes[p]]
    /\ ploop' = [ploop EXCEPT ![t].pc = "sleep", ![t].snapshot = {},
                              ![t].wake = now + check_interval,
                              ![t].g_enum_failed = FALSE,
                                      ![t].g_cont = <<>>]
    /\ UNCHANGED <<loglite, config, psutil_available, win32_available, sinkDir, warned, evtVars, monitoring, emitted, now, osProcs, g_removed, tailVars, sinkVars>>

\* The monitored executable starts or exits.
ProcStart(p) ==
    /\ p \notin osProcs
    /\ osProcs' = osProcs \cup {p}
    /\ UNCHANGED <<loglite, config, psutil_available, win32_available, sinkDir, warned, evtVars, monitoring, emitted, now, eve_processes, ploop, g_removed,
                   tailVars, sinkVars>>

ProcExit(p) ==
    /\ p \in osProcs
    /\ osProcs' = osProcs \ {p}
    /\ UNCHANGED <<loglite, config, psutil_available, win32_available, sinkDir, warned, evtVars, monitoring, emitted, now, eve_processes, ploop, g_removed,
                   tailVars, sinkVars>>

(* -------------------------------- text -------------------------------- *)

UpperChars == <<"A", "B", "C", "D", "E", "F", "G", "H", "I", "J", "K", "L", "M", "N", "O", "P", "Q", "R", "S", "T", "U", "V", "W", "X", "Y", "Z">>

LowerChars == <<"a", "b", "c", "d", "e", "f", "g", "h", "i", "j", "k", "l", "m", "n", "o", "p", "q", "r", "s", "t", "u", "v", "w", "x", "y", "z">>

\* str.lower() on one character.
LowerChar(c) ==
    IF \E i \in 1..Len(UpperChars) : UpperChars[i] = c
    THEN LowerChars[CHOOSE i \in 1..Len(UpperChars) : UpperChars[i] = c]
    ELSE c

\* str.lower().
Lower(s) == [i \in 1..Len(s) |-> LowerChar(s[i])]

\* The Python test "pat in s".
Contains(pat, s) ==
    \E i \in 0..(Len(s) - Len(pat)) : SubSeq(s, i + 1, i + Len(pat)) = pat

\* s.split('\n').
RECURSIVE Split(_)
Split(s) ==
    IF \E i \in 1..Len(s) : s[i] = "\n"
    THEN LET i == CHOOSE j \in 1..Len(s) :
                      s[j] = "\n" /\ \A k \in 1..(j - 1) : s[k] # "\n"
         IN <<SubSeq(s, 1, i - 1)>> \o Split(SubSeq(s, i + 1, Len(s)))
    ELSE <<s>>

Whitespace == {" ", "\n", "\t", "\r"}

\* str.strip().
Strip(s) ==
    IF \A i \in 1..Len(s) : s[i] \in Whitespace
    THEN <<>>
    ELSE LET a == CHOOSE i \in 1..Len(s) :
                      s[i] \notin Whitespace
                      /\ \A k \in 1..(i - 1) : s[k] \in Whitespace
             b == CHOOSE i \in 1..Len(s) :
                      s[i] \notin Whitespace
                      /\ \A k \in (i + 1)..Len(s) : s[k] \in Whitespace
         IN SubSeq(s, a, b)

(* ----------------------- the log file watcher loop -------------------- *)

\* monitor_log_files, lines 299-303, in the order the loop tries them.
error_patterns ==
    << <<"e", "x", "c", "e", "p", "t", "i", "o", "n">>, <<"e", "r", "r", "o", "r">>, <<"c", "r", "a", "s", "h">>, <<"f", "a", "u", "l", "t">>, <<"v", "i", "o", "l", "a", "t", "i", "o", "n">>,
       <<"a", "c", "c", "e", "s", "s", " ", "v", "i", "o", "l", "a", "t", "i", "o", "n">>, <<"m", "e", "m", "o", "r", "y", " ", "e", "r", "r", "o", "r">>, <<"s", "t", "a", "c", "k", " ", "o", "v", "e", "r", "f", "l", "o", "w">>,
       <<"a", "s", "s", "e", "r", "t", "i", "o", "n", " ", "f", "a", "i", "l", "e", "d">>, <<"f", "a", "t", "a", "l", " ", "e", "r", "r", "o", "r">>, <<"u", "n", "h", "a", "n", "d", "l", "e", "d", " ", "e", "x", "c", "e", "p", "t", "i", "o", "n">> >>

\* monitor_log_files, lines 306-309: the names the loop skips.
exclude_files == { <<"e", "v", "e", "_", "c", "r", "a", "s", "h", "_", "m", "o", "n", "i", "t", "o", "r", ".", "l", "o", "g">>, <<"e", "v", "e", "_", "c", "r", "a", "s", "h", "_", "l", "o", "g", ".", "t", "x", "t">> }

\* The watched directory (an entry of self.log_locations), as str(path).
LogDir == <<"C", ":", "/", "E", "V", "E", "/", "l", "o", "g", "s", "/">>

game_log == <<"g", "a", "m", "e", ".", "l", "o", "g">>

crash_monitor_log == <<"c", "r", "a", "s", "h", "_", "m", "o", "n", "i", "t", "o", "r", ".", "l", "o", "g">>

eve_crash_monitor_log == <<"e", "v", "e", "_", "c", "r", "a", "s", "h", "_", "m", "o", "n", "i", "t", "o", "r", ".", "l", "o", "g">>

\* The *.log files of the watched directory, in the order the directory
\* lists them (by name).
LogFiles == <<crash_monitor_log, eve_crash_monitor_log, game_log>>

LogFileSet == {LogFiles[i] : i \in 1..Len(LogFiles)}

\* The exclusion lists of the configuration under which the monitor runs.
config_exclude_files == { <<"e", "v", "e", "_", "c", "r", "a", "s", "h", "_", "m", "o", "n", "i", "t", "o", "r", ".", "l", "o", "g">>, <<"c", "r", "a", "s", "h", "_", "m", "o", "n", "i", "t", "o", "r", ".", "l", "o", "g">> }

config_exclude_patterns == { <<"m", "o", "n", "i", "t", "o", "r">> }

\* The rule the configuration states: exact name, or a listed substring of
\* the name (tests/test_log_exclusion.py, lines 66-76).
ConfigExcluded(name) ==
    \/ name \in config_exclude_files
    \/ \E p \in config_exclude_patterns : Contains(Lower(p), Lower(name))

\* Lines 320-322: the test monitor_log_files applies to a globbed file.
Excluded(name) ==
    \/ name \in exclude_files
    \/ Contains(<<"e", "v", "e", "_", "c", "r", "a", "s", "h", "_", "m", "o", "n", "i", "t", "o", "r", ".", "l", "o", "g">>, LogDir \o name)
    \/ Contains(<<"e", "v", "e", "_", "c", "r", "a", "s", "h", "_", "l", "o", "g", ".", "t", "x", "t">>, LogDir \o name)

\* What the monitored application writes to its log in one go.
Chunks == { <<"F", "A", "T", "A", "L", " ", "E", "R", "R", "O", "R", "\n">>, <<"o", "k", "\n">> }

\* The content of a log file after the application rotated it.
RotatedContent == <<"c", "r", "a", "s", "h", "\n">>

\* file_positions.get(str(log_file), 0), line 327.
GetPosition(file_positions, f) ==
    IF f \in DOMAIN file_positions THEN file_positions[f] ELSE 0

\* f.seek(last_position); f.read(), lines 331-332: a seek past the end of
\* the file reads nothing.
ReadFrom(content, last_position) == SubSeq(content, last_position + 1, Len(content))

\* A seeded defect of PatternsIn: the line is not lower-cased.
PatternsInCaseSensitive(line) ==
    SelectSeq(error_patterns, LAMBDA p : Contains(p, line))

\* Lines 337-339: the patterns found in one line, in list order; the inner
\* loop does not stop at the first one.
PatternsIn(line) == SelectSeq(error_patterns, LAMBDA p : Contains(p, Lower(line)))

\* Lines 340-347: the crash_data dicts of line i (0-based) of a read that
\* started at last_position.  g_repoll is history: whether the file had
\* been polled to completion and left unchanged since.
LineRecords(f, line, i, last_position, repoll) ==
    LET pats == PatternsIn(line)
    IN [k \in 1..Len(pats) |->
           [type            |-> "log_file_error",
            timestamp       |-> now,
            file            |-> LogDir \o f,
            line_number     |-> last_position + i + 1,
            content         |-> Strip(line),
            pattern_matched |-> pats[k],
            g_repoll        |-> repoll]]

\* Lines 335-348: the records of all lines from index i on.
RECURSIVE ScanLines(_, _, _, _, _)
ScanLines(f, lines, i, last_position, repoll) ==
    IF i >= Len(lines) THEN <<>>
    ELSE LineRecords(f, lines[i + 1], i, last_position, repoll)
         \o ScanLines(f, lines, i + 1, last_position, repoll)

\* A file thread slot before its thread is spawned.  g_read_failed is
\* history: the files whose read failed in the current cycle.
NoFileThread == [pc |-> "none", todo |-> <<>>, cur |-> <<>>, size |-> 0,
                 last |-> 0, wake |-> 0, file_positions |-> <<>>,
                 g_read_failed |-> {}]

\* A seeded defect of TBegin: the loop does not test self.monitoring.
TBeginIgnoresStop(t) ==
    /\ tloop[t].pc = "sleep"
    /\ now >= tloop[t].wake
    /\ tloop' = [tloop EXCEPT ![t].pc = "scan", ![t].wake = 0,
                              ![t].todo = LogFiles]
    /\ UNCHANGED <<loglite, config, psutil_available, win32_available, sinkDir, warned, evtVars, monitoring, emitted, now, procVars,
                   files, fileEvents, g_fresh, g_high, sinkVars>>

\* "while self.monitoring:" (line 311) once time.sleep has returned, and
\* the glob of the watched directory (line 317).
TBegin(t) ==
    /\ tloop[t].pc = "sleep"
    /\ now >= tloop[t].wake
    /\ IF monitoring
       THEN tloop' = [tloop EXCEPT ![t].pc = "scan", ![t].wake = 0,
                                   ![t].todo = LogFiles,
                                   ![t].g_read_failed = {}]
       ELSE tloop' = [tloop EXCEPT ![t].pc = "exited", ![t].wake = 0]
    /\ UNCHANGED <<loglite, config, psutil_available, win32_available, sinkDir, warned, evtVars, monitoring, emitted, now, procVars, files, fileEvents,
                   g_fresh, g_high, sinkVars>>

\* A seeded defect of TStat: the loop tests self.monitoring before every
\* file and returns in the middle of a poll when it is clear.
TStatInterrupted(t) ==
    /\ tloop[t].pc = "scan"
    /\ tloop[t].todo # <<>>
    /\ LET f == Head(tloop[t].todo)
       IN IF ~monitoring
          THEN /\ tloop' = [tloop EXCEPT ![t].pc = "exited", ![t].todo = <<>>]
               /\ UNCHANGED g_fresh
          ELSE IF Excluded(f)
          THEN /\ tloop' = [tloop EXCEPT ![t].todo = Tail(@)]
               /\ UNCHANGED g_fresh
          ELSE LET current_size == Len(files[f])
                   last_position == GetPosition(tloop[t].file_positions, f)
               IN IF current_size > last_position
                  THEN /\ tloop' = [tloop EXCEPT ![t].pc = "read", ![t].cur = f,
                                                 ![t].size = current_size,
                                                 ![t].last = last_position]
                       /\ UNCHANGED g_fresh
                  ELSE /\ tloop' = [tloop EXCEPT ![t].todo = Tail(@)]
                       /\ g_fresh' = g_fresh \cup {f}
    /\ UNCHANGED <<loglite, config, psutil_available, win32_available, sinkDir, warned,
                   evtVars, monitoring, emitted, now, procVars, files,
                   fileEvents, g_high, sinkVars>>

\* Lines 320-329 for one globbed file: the exclusion test, stat and the
\* comparison with the checkpoint.
TStat(t) ==
    /\ tloop[t].pc = "scan"
    /\ tloop[t].todo # <<>>
    /\ LET f == Head(tloop[t].todo)
       IN IF Excluded(f)
          THEN /\ tloop' = [tloop EXCEPT ![t].todo = Tail(@)]
               /\ UNCHANGED g_fresh
          ELSE LET current_size == Len(files[f])
                   last_position == GetPosition(tloop[t].file_positions, f)
               IN IF current_size > last_position
                  THEN /\ tloop' = [tloop EXCEPT ![t].pc = "read", ![t].cur = f,
                                                 ![t].size = current_size,
                                                 ![t].last = last_position]
                       /\ UNCHANGED g_fresh
                  ELSE /\ tloop' = [tloop EXCEPT ![t].todo = Tail(@)]
                       /\ g_fresh' = g_fresh \cup {f}
    /\ UNCHANGED <<loglite, config, psutil_available, win32_available, sinkDir, warned, evtVars, monitoring, emitted, now, procVars, files, fileEvents,
                   g_high, sinkVars>>

\* A seeded defect of TRead: the checkpoint is stored only when the read
\* found a match.
TReadCheckpointOnMatch(t) ==
    /\ tloop[t].pc = "read"
    /\ LET f == tloop[t].cur
           new_content == ReadFrom(files[f], tloop[t].last)
           recs == ScanLines(f, Split(new_content), 0, tloop[t].last,
                             f \in g_fresh)
       IN /\ emitted' = emitted \o recs
          /\ tloop' = [tloop EXCEPT
                ![t].pc = "scan", ![t].todo = Tail(@), ![t].cur = <<>>,
                ![t].size = 0, ![t].last = 0,
                ![t].file_positions =
                    IF recs = <<>>
                    THEN @
                    ELSE [g \in DOMAIN tloop[t].file_positions \cup {f} |->
                             IF g = f THEN tloop[t].size
                             ELSE tloop[t].file_positions[g]]]
          /\ g_fresh' = g_fresh \cup {f}
          /\ g_high' = [g_high EXCEPT
                ![f] = IF tloop[t].size > @ THEN tloop[t].size ELSE @]
    /\ UNCHANGED <<loglite, config, psutil_available, win32_available, sinkDir, warned,
                   evtVars, monitoring, now, procVars, files, fileEvents,
                   sinkVars>>

\* Lines 330-351: read from the checkpoint to the end of the file as it is
\* now, emit a record per line and pattern, store the size stat returned.
TRead(t) ==
    /\ tloop[t].pc = "read"
    /\ LET f == tloop[t].cur
           new_content == ReadFrom(files[f], tloop[t].last)
           recs == ScanLines(f, Split(new_content), 0, tloop[t].last,
                             f \in g_fresh)
       IN /\ emitted' = emitted \o recs
          /\ tloop' = [tloop EXCEPT
                ![t].pc = "scan", ![t].todo = Tail(@), ![t].cur = <<>>,
                ![t].size = 0, ![t].last = 0,
                ![t].file_positions =
                    [g \in DOMAIN tloop[t].file_positions \cup {f} |->
                        IF g = f THEN tloop[t].size
                        ELSE tloop[t].file_positions[g]]]
          /\ g_fresh' = g_fresh \cup {f}
          /\ g_high' = [g_high EXCEPT
                ![f] = IF tloop[t].size > @ THEN tloop[t].size ELSE @]
    /\ UNCHANGED <<loglite, config, psutil_available, win32_available, sinkDir, warned, evtVars, monitoring, now, procVars, files, fileEvents, sinkVars>>

\* A seeded defect of TReadFail: the exception is caught by the handler of
\* the whole cycle (lines 358-360), which leaves the other files unscanned.
TReadFailAborts(t) ==
    /\ tloop[t].pc = "read"
    /\ tloop' = [tloop EXCEPT
          ![t].pc = "sleep", ![t].todo = <<>>, ![t].cur = <<>>,
          ![t].size = 0, ![t].last = 0, ![t].wake = now + log_file_sleep,
          ![t].g_read_failed = @ \cup {tloop[t].cur}]
    /\ UNCHANGED <<loglite, config, psutil_available, win32_available, sinkDir, warned,
                   evtVars, monitoring, emitted, now, procVars, files,
                   fileEvents, g_fresh, g_high, sinkVars>>

\* Lines 330-332 when open or read raises (the file is locked, or gone
\* since the glob): the handler of the file (lines 353-354) logs the error,
\* line 351 is not reached, and the loop goes on with the next file.
TReadFail(t) ==
    /\ tloop[t].pc = "read"
    /\ tloop' = [tloop EXCEPT
          ![t].pc = "scan", ![t].todo = Tail(@), ![t].cur = <<>>,
          ![t].size = 0, ![t].last = 0,
          ![t].g_read_failed = @ \cup {tloop[t].cur}]
    /\ UNCHANGED <<loglite, config, psutil_available, win32_available, sinkDir, warned,
                   evtVars, monitoring, emitted, now, procVars, files,
                   fileEvents, g_fresh, g_high, sinkVars>>

\* time.sleep(10), line 356, at the end of a cycle.
TSleep(t) ==
    /\ tloop[t].pc = "scan"
    /\ tloop[t].todo = <<>>
    /\ tloop' = [tloop EXCEPT ![t].pc = "sleep", ![t].wake = now + log_file_sleep]
    /\ UNCHANGED <<loglite, config, psutil_available, win32_available, sinkDir, warned, evtVars, monitoring, emitted, now, procVars, files, fileEvents,
                   g_fresh, g_high, sinkVars>>

\* The monitored application appends to its log.
FileAppend(f) ==
    /\ fileEvents < MaxFileEvents
    /\ \E chunk \in Chunks : files' = [files EXCEPT ![f] = @ \o chunk]
    /\ fileEvents' = fileEvents + 1
    /\ g_fresh' = g_fresh \ {f}
    /\ UNCHANGED <<loglite, config, psutil_available, win32_available, sinkDir, warned, evtVars, monitoring, emitted, now, procVars, tloop, g_high, sinkVars>>

\* The monitored application rotates its log: a new, shorter file under
\* the same name.
FileRotate(f) ==
    /\ fileEvents < MaxFileEvents
    /\ Len(RotatedContent) < Len(files[f])
    /\ files' = [files EXCEPT ![f] = RotatedContent]
    /\ fileEvents' = fileEvents + 1
    /\ g_fresh' = g_fresh \ {f}
    /\ UNCHANGED <<loglite, config, psutil_available, win32_available, sinkDir, warned, evtVars, monitoring, emitted, now, procVars, tloop, g_high, sinkVars>>


\* Lines the monitored application writes in two parts, each part with its
\* own write call.
SplitLines == { << <<"e", "r", "r", "o", "r", " ">>, <<"e", "r", "r", "o", "r", "\n">> >>, << <<"c", "r", "a">>, <<"s", "h", "\n">> >> }

\* The text after the last newline of a file: the line still being written.
OpenLine(content) == Split(content)[Len(Split(content))]

\* The monitored application writes the first part of a line while no
\* watcher loop is inside a poll.
FileWriteFirst(f) ==
    /\ fileEvents < MaxFileEvents
    /\ OpenLine(files[f]) = <<>>
    /\ \A t \in Slots : tloop[t].pc \in {"none", "sleep", "exited"}
    /\ \E p \in SplitLines : files' = [files EXCEPT ![f] = @ \o p[1]]
    /\ fileEvents' = fileEvents + 1
    /\ g_fresh' = g_fresh \ {f}
    /\ UNCHANGED <<loglite, config, psutil_available, win32_available, sinkDir, warned,
                   evtVars, monitoring, emitted, now, procVars, tloop, g_high,
                   sinkVars>>

\* The monitored application writes the rest of the line it began, again
\* while no watcher loop is inside a poll.
FileWriteRest(f) ==
    /\ fileEvents < MaxFileEvents
    /\ \A t \in Slots : tloop[t].pc \in {"none", "sleep", "exited"}
    /\ \E p \in SplitLines :
          /\ OpenLine(files[f]) = p[1]
          /\ files' = [files EXCEPT ![f] = @ \o p[2]]
    /\ fileEvents' = fileEvents + 1
    /\ g_fresh' = g_fresh \ {f}
    /\ UNCHANGED <<loglite, config, psutil_available, win32_available, sinkDir, warned,
                   evtVars, monitoring, emitted, now, procVars, tloop, g_high,
                   sinkVars>>
(* ------------------------ the event log watcher loop ------------------ *)

\* What the OS can write to the Application event log: severity, source
\* name and event identifier of an entry.
EventKinds ==
    { [EventType |-> "ERROR",   SourceName |-> <<"E", "x", "e", "F", "i", "l", "e">>,           EventID |-> 7],
      [EventType |-> "ERROR",   SourceName |-> <<"A", "p", "p", "l", "i", "c", "a", "t", "i", "o", "n", " ", "E", "r", "r", "o", "r">>, EventID |-> 1000],
      [EventType |-> "ERROR",   SourceName |-> <<>>,                EventID |-> 1000],
      [EventType |-> "ERROR",   SourceName |-> <<"C", "h", "r", "o", "m", "e">>,            EventID |-> 7],
      [EventType |-> "WARNING", SourceName |-> <<"E", "V", "E">>,               EventID |-> 1001] }

\* An event log thread slot before its thread is spawned.
NoEventThread == [pc |-> "none", last_check |-> 0, batch |-> <<>>, wake |-> 0,
                  g_failed |-> FALSE]

\* A seeded defect of the comparison below: >= in place of >.
NewerOrEqual(time_generated, since) == time_generated >= since

\* get_recent_crash_events, line 267: event.TimeGenerated > since.
Newer(time_generated, since) == time_generated > since

\* get_recent_crash_events, lines 269-273.  "event.SourceName and ..." is
\* false for an empty (or missing) source name.
IsCrashEvent(event) ==
    /\ event.EventType = "ERROR"
    /\ event.SourceName # <<>>
    /\ \/ Contains(<<"e", "v", "e">>, Lower(event.SourceName))
       \/ Contains(<<"e", "x", "e", "f", "i", "l", "e">>, Lower(event.SourceName))
       \/ event.EventID \in {1000, 1001}

\* A seeded defect of EventRecord: the dict is built without its timestamp.
EventRecordNoTimestamp(event, t) ==
    [type         |-> "windows_event_log",
     event_id     |-> event.EventID,
     source       |-> event.SourceName,
     g_record     |-> event.RecordNumber,
     g_loop       |-> t,
     g_after_fail |-> eloop[t].g_failed]

\* Lines 275-282: the crash_data dict of one entry.  The g_ fields are
\* history: the entry's record number, the loop that polled, and whether
\* an earlier poll of that loop had failed.
EventRecord(event, t) ==
    [type         |-> "windows_event_log",
     timestamp    |-> event.TimeGenerated,
     event_id     |-> event.EventID,
     source       |-> event.SourceName,
     g_record     |-> event.RecordNumber,
     g_loop       |-> t,
     g_after_fail |-> eloop[t].g_failed]

\* ReadEventLog with EVENTLOG_BACKWARDS_READ (lines 263-264): newest first.
Reverse(s) == [i \in 1..Len(s) |-> s[Len(s) + 1 - i]]

\* A seeded defect of get_recent_crash_events: the test of win32_available
\* (lines 254-255) is missing and the event log is read all the same.
get_recent_crash_events_unguarded(t, since) ==
    LET hits == SelectSeq(Reverse(eventLog),
                          LAMBDA e : Newer(e.TimeGenerated, since) /\ IsCrashEvent(e))
    IN [i \in 1..Len(hits) |-> EventRecord(hits[i], t)]

\* get_recent_crash_events(since): the empty list without win32evtlog
\* (lines 254-255); else lines 266-283, when the platform calls succeed.
get_recent_crash_events(t, since) ==
    IF ~win32_available
    THEN <<>>
    ELSE LET hits == SelectSeq(Reverse(eventLog),
                               LAMBDA e : Newer(e.TimeGenerated, since)
                                          /\ IsCrashEvent(e))
         IN [i \in 1..Len(hits) |-> EventRecord(hits[i], t)]

\* monitor_event_logs up to its loop (lines 232-235): the cursor starts
\* five minutes back.
EStart(t) ==
    /\ eloop[t].pc = "start"
    /\ eloop' = [eloop EXCEPT ![t].pc = "sleep",
                              ![t].last_check = now - event_lookback]
    /\ UNCHANGED <<loglite, config, psutil_available, win32_available, sinkDir, warned, monitoring, emitted, now, procVars, tailVars,
                   sinkVars, eventLog>>

\* "while self.monitoring:" (line 237) once time.sleep has returned, and
\* events = self.get_recent_crash_events(last_check) (line 240).
EPoll(t) ==
    /\ eloop[t].pc = "sleep"
    /\ now >= eloop[t].wake
    /\ IF monitoring
       THEN eloop' = [eloop EXCEPT
                ![t].pc = "deliver", ![t].wake = 0,
                ![t].batch = get_recent_crash_events(t, eloop[t].last_check)]
       ELSE eloop' = [eloop EXCEPT ![t].pc = "exited", ![t].wake = 0]
    /\ UNCHANGED <<loglite, config, psutil_available, win32_available, sinkDir, warned, monitoring, emitted, now, procVars, tailVars,
                   sinkVars, eventLog>>

\* A seeded defect of EPollFail: the exception is not caught and ends the
\* thread.
EPollFailDies(t) ==
    /\ eloop[t].pc = "sleep"
    /\ now >= eloop[t].wake
    /\ monitoring
    /\ eloop' = [eloop EXCEPT ![t].pc = "exited", ![t].wake = 0,
                              ![t].g_failed = TRUE]
    /\ UNCHANGED <<loglite, config, psutil_available, win32_available, sinkDir, warned, monitoring, emitted, now, procVars, tailVars,
                   sinkVars, eventLog>>

\* The same step when OpenEventLog or ReadEventLog raises (they are called
\* only with win32evtlog, lines 254-264): the exception is caught inside
\* get_recent_crash_events (lines 287-288), which returns the empty list.
EPollFail(t) ==
    /\ win32_available
    /\ eloop[t].pc = "sleep"
    /\ now >= eloop[t].wake
    /\ monitoring
    /\ eloop' = [eloop EXCEPT ![t].pc = "deliver", ![t].wake = 0,
                              ![t].batch = <<>>, ![t].g_failed = TRUE]
    /\ UNCHANGED <<loglite, config, psutil_available, win32_available, sinkDir, warned, monitoring, emitted, now, procVars, tailVars,
                   sinkVars, eventLog>>

\* Lines 241-243: hand the next event of the poll to log_crash_event.
EDeliver(t) ==
    /\ eloop[t].pc = "deliver"
    /\ eloop[t].batch # <<>>
    /\ emitted' = Append(emitted, Head(eloop[t].batch))
    /\ eloop' = [eloop EXCEPT ![t].batch = Tail(@)]
    /\ UNCHANGED <<loglite, config, psutil_available, win32_available, sinkDir, warned, monitoring, now, procVars, tailVars,
                   sinkVars, eventLog>>

\* Lines 245-246: last_check = datetime.now(); time.sleep(30).
EAdvance(t) ==
    /\ eloop[t].pc = "deliver"
    /\ eloop[t].batch = <<>>
    /\ eloop' = [eloop EXCEPT ![t].pc = "sleep", ![t].last_check = now,
                              ![t].wake = now + event_log_sleep]
    /\ UNCHANGED <<loglite, config, psutil_available, win32_available, sinkDir, warned, monitoring, emitted, now, procVars, tailVars,
                   sinkVars, eventLog>>

\* The OS writes an entry to the Application event log.
EventLogged(kind) ==
    /\ Len(eventLog) < MaxEvents
    /\ eventLog' = Append(eventLog,
            [RecordNumber  |-> Len(eventLog) + 1,
             TimeGenerated |-> now,
             EventType     |-> kind.EventType,
             SourceName    |-> kind.SourceName,
             EventID       |-> kind.EventID])
    /\ UNCHANGED <<loglite, config, psutil_available, win32_available, sinkDir, warned, monitoring, emitted, now, procVars, tailVars,
                   sinkVars, eloop>>

(* ---------------------------- the event sink -------------------------- *)

\* The two loops that call log_crash_event concurrently, each on its own
\* file handle: the process loop and the log file loop.
Writers == {"process", "file"}

\* The text log_crash_event formats (lines 372-421), line by line.  A line
\* is a record: its kind, the caller and call it stems from, and for the
\* two lines generate_report reads, its text.  The header line
\* "CRASH DETECTED: <timestamp>" is two items, the marker that
\* generate_report splits at and the text that follows it on the line.
Line(kind, w, n) ==
    [kind |-> kind, writer |-> w, n |-> n, text |-> "", time |-> 0]

\* datetime.isoformat(): the text, in ISO 8601 format, of the instant t.
\* A timestamp text is a record: text "iso" stands for a text in that
\* format, and time for the instant it denotes.
isoformat(t) == [text |-> "iso", time |-> t]

\* A timestamp text that is not in ISO 8601 format.
NotIso == [text |-> "junk", time |-> 0]

\* The text after "Crash Type: " that log_crash_event writes for the
\* records of each caller (lines 378, 396, 412).
CrashTypeText(w) ==
    CASE w = "process" -> "Process Termination"
      [] w = "event"   -> "Windows Event Log Error"
      [] w = "file"    -> "Log File Error Pattern"

\* "CRASH DETECTED: {timestamp}" after the marker (lines 376, 394, 410).
HeaderLine(w, n, timestamp) ==
    [Line("timestamp", w, n) EXCEPT !.text = timestamp.text,
                                    !.time = timestamp.time]

\* "Crash Type: ..." (lines 378, 396, 412).
TypeLine(w, n) == [Line("type", w, n) EXCEPT !.text = CrashTypeText(w)]

\* Lines 374-389: a process_termination block (six field lines).
ProcessBlock(w, n, timestamp) ==
    << Line("blank", w, n), Line("sep", w, n), Line("marker", w, n),
       HeaderLine(w, n, timestamp), Line("sep", w, n), TypeLine(w, n),
       Line("field", w, n), Line("field", w, n), Line("field", w, n),
       Line("field", w, n), Line("field", w, n), Line("field", w, n),
       Line("blank", w, n), Line("details", w, n), Line("sep", w, n),
       Line("blank", w, n) >>

\* Lines 392-405: a windows_event_log block (four field lines).
EventBlock(w, n, timestamp) ==
    << Line("blank", w, n), Line("sep", w, n), Line("marker", w, n),
       HeaderLine(w, n, timestamp), Line("sep", w, n), TypeLine(w, n),
       Line("field", w, n), Line("field", w, n), Line("field", w, n),
       Line("field", w, n),
       Line("blank", w, n), Line("details", w, n), Line("sep", w, n),
       Line("blank", w, n) >>

\* Lines 408-421: a log_file_error block (four field lines).
FileBlock(w, n, timestamp) ==
    << Line("blank", w, n), Line("sep", w, n), Line("marker", w, n),
       HeaderLine(w, n, timestamp), Line("sep", w, n), TypeLine(w, n),
       Line("field", w, n), Line("field", w, n), Line("field", w, n),
       Line("field", w, n),
       Line("blank", w, n), Line("details", w, n), Line("sep", w, n),
       Line("blank", w, n) >>

\* Lines 368-421: log_entry of the n-th call, made by caller w with a
\* record of w's type that carries the given timestamp.
FormatEntry(w, n, timestamp) ==
    CASE w = "process" -> ProcessBlock(w, n, timestamp)
      [] w = "event"   -> EventBlock(w, n, timestamp)
      [] w = "file"    -> FileBlock(w, n, timestamp)

\* log_entry of the n-th call of caller w, a watcher loop: its records carry
\* datetime.now().isoformat().
LogEntry(w, n) == FormatEntry(w, n, isoformat(now))

\* A write of data at offset pos of a file: it replaces what is there and
\* extends the file where it reaches past the end.
WriteAt(content, pos, data) ==
    SubSeq(content, 1, pos) \o data
    \o SubSeq(content, pos + Len(data) + 1, Len(content))

\* A caller of log_crash_event between two calls.  n is the number of calls
\* it has made; g_dropped is history: the calls that ended in the except
\* branch (lines 453-454).
NoCall == [pc |-> "idle", pos |-> 0, n |-> 0, g_dropped |-> {}]

\* open(output_file, 'a'), line 450: opens the file, creating it in its
\* directory if it is not there.
SinkOpen(w) ==
    /\ sinkDir
    /\ writers[w].pc = "idle"
    /\ writers[w].n < MaxAppends
    /\ writers' = [writers EXCEPT ![w].pc = "open"]
    /\ UNCHANGED <<loglite, config, psutil_available, win32_available, sinkDir, warned, evtVars, monitoring, emitted, now, procVars, tailVars, sinkFile,
                   report, g_appended, sinkErrors>>

\* f.write(log_entry) reaches the file when the with block closes it
\* (lines 450-451).  The append-mode write of the Windows C runtime first
\* moves the handle to the end of the file ...
SinkSeek(w) ==
    /\ writers[w].pc = "open"
    /\ writers' = [writers EXCEPT ![w].pc = "positioned",
                                  ![w].pos = Len(sinkFile)]
    /\ UNCHANGED <<loglite, config, psutil_available, win32_available, sinkDir, warned, evtVars, monitoring, emitted, now, procVars, tailVars, sinkFile,
                   report, g_appended, sinkErrors>>

\* ... and then writes there; nothing keeps another handle from writing
\* between the two.  (Where the OS appends atomically, the two steps are
\* one: the executions in which SinkWrite follows SinkSeek at once.)
SinkWrite(w) ==
    /\ writers[w].pc = "positioned"
    /\ sinkFile' = WriteAt(sinkFile, writers[w].pos,
                           LogEntry(w, writers[w].n + 1))
    /\ writers' = [writers EXCEPT ![w].pc = "idle", ![w].pos = 0,
                                  ![w].n = @ + 1]
    /\ g_appended' = g_appended + 1
    /\ UNCHANGED <<loglite, config, psutil_available, win32_available, sinkDir, warned, evtVars, monitoring, emitted, now, procVars, tailVars, report, sinkErrors>>

\* open(output_file, 'a') in a directory that does not exist raises
\* FileNotFoundError: open creates no directory.  The except branch
\* (lines 453-454) logs the error and the call returns.
SinkOpenNoDir(w) ==
    /\ ~sinkDir
    /\ writers[w].pc = "idle"
    /\ writers[w].n < MaxAppends
    /\ writers' = [writers EXCEPT ![w].n = @ + 1,
                                  ![w].g_dropped = @ \cup {writers[w].n + 1}]
    /\ sinkErrors' = sinkErrors + 1
    /\ UNCHANGED <<loglite, config, psutil_available, win32_available, sinkDir, warned,
                   evtVars, monitoring, emitted, now, procVars, tailVars,
                   sinkFile, report, g_appended>>

\* open raises for another reason (access denied, the file locked by
\* another program): lines 453-454 as above.
SinkOpenFail(w) ==
    /\ sinkDir
    /\ writers[w].pc = "idle"
    /\ writers[w].n < MaxAppends
    /\ writers' = [writers EXCEPT ![w].n = @ + 1,
                                  ![w].g_dropped = @ \cup {writers[w].n + 1}]
    /\ sinkErrors' = sinkErrors + 1
    /\ UNCHANGED <<loglite, config, psutil_available, win32_available, sinkDir, warned,
                   evtVars, monitoring, emitted, now, procVars, tailVars,
                   sinkFile, report, g_appended>>

\* The write raises when the with block flushes and closes the file
\* (lines 450-451; the disk is full, the device fails): the operating
\* system has written the first k lines of the entry, none or some but
\* not all (here the first PartialLen).  Nothing takes them back: lines
\* 453-454 log the error and the call returns.
SinkWriteFail(w) ==
    /\ writers[w].pc = "positioned"
    /\ \E k \in {0, PartialLen} :
          sinkFile' = WriteAt(sinkFile, writers[w].pos,
                              SubSeq(LogEntry(w, writers[w].n + 1), 1, k))
    /\ writers' = [writers EXCEPT ![w].pc = "idle", ![w].pos = 0,
                                  ![w].n = @ + 1,
                                  ![w].g_dropped = @ \cup {writers[w].n + 1}]
    /\ sinkErrors' = sinkErrors + 1
    /\ UNCHANGED <<loglite, config, psutil_available, win32_available, sinkDir, warned,
                   evtVars, monitoring, emitted, now, procVars, tailVars,
                   report, g_appended>>

\* content.split('CRASH DETECTED:'), line 505: the sections between the
\* markers, the text before the first marker included.
RECURSIVE SplitAtMarker(_)
SplitAtMarker(content) ==
    IF \E i \in 1..Len(content) : content[i].kind = "marker"
    THEN LET i == CHOOSE j \in 1..Len(content) :
                      content[j].kind = "marker"
                      /\ \A k \in 1..(j - 1) : content[k].kind # "marker"
         IN <<SubSeq(content, 1, i - 1)>>
            \o SplitAtMarker(SubSeq(content, i + 1, Len(content)))
    ELSE <<content>>

\* section.strip() is non-empty (line 506): some line that is not blank.
NonBlank(section) == \E i \in 1..Len(section) : section[i].kind # "blank"

\* Lines 505-506: crashes.
CrashSections(content) == SelectSeq(SplitAtMarker(content), NonBlank)

\* datetime.fromisoformat(first_line) (lines 528-529): the instant a text
\* in ISO 8601 format denotes; any other text raises.
fromisoformat(line) ==
    IF line.kind = "timestamp" /\ line.text = "iso"
    THEN [ok |-> TRUE, time |-> line.time]
    ELSE [ok |-> FALSE, time |-> 0]

\* Seconds in a day, and timedelta.days: the whole days of a time span.
Day == 86400

Days(seconds) == seconds \div Day

\* (now - crash_time).days <= 7, line 530.
RecentDays == 7

\* Lines 525-533 for one section: its first line parses as a timestamp
\* that is no more than RecentDays whole days old.
IsRecent(crash) ==
    /\ fromisoformat(crash[1]).ok
    /\ Days(now - fromisoformat(crash[1]).time) <= RecentDays

\* Lines 518-521 for one section: the text of its first "Crash Type:"
\* line, <<>> if it has none.
TypeOf(crash) ==
    LET type_line == SelectSeq(crash, LAMBDA l : l.kind = "type")
    IN IF type_line = <<>> THEN <<>> ELSE <<type_line[1].text>>

\* crash_types[crash_type] = crash_types.get(crash_type, 0) + 1, line 522.
\* A dict keeps its keys in the order they were inserted: crash_types is a
\* sequence of (type, count) items in that order.
Count(crash_types, crash_type) ==
    IF \E i \in 1..Len(crash_types) : crash_types[i].type = crash_type
    THEN [i \in 1..Len(crash_types) |->
             IF crash_types[i].type = crash_type
             THEN [crash_types[i] EXCEPT !.count = @ + 1]
             ELSE crash_types[i]]
    ELSE Append(crash_types, [type |-> crash_type, count |-> 1])

\* Lines 512-522: crash_types after the first k sections.
RECURSIVE CrashTypes(_, _)
CrashTypes(crashes, k) ==
    IF k = 0
    THEN <<>>
    ELSE IF TypeOf(crashes[k]) = <<>>
         THEN CrashTypes(crashes, k - 1)
         ELSE Count(CrashTypes(crashes, k - 1), TypeOf(crashes[k])[1])

\* A seeded defect of CommonCrashType: among equal counts the last item
\* wins.
CommonCrashTypeLast(crash_types) ==
    IF crash_types = <<>>
    THEN "None"
    ELSE LET i == CHOOSE j \in 1..Len(crash_types) :
                    /\ \A k \in 1..Len(crash_types) :
                          crash_types[k].count <= crash_types[j].count
                    /\ \A k \in (j + 1)..Len(crash_types) :
                          crash_types[k].count < crash_types[j].count
         IN crash_types[i].type

\* max(crash_types.items(), key=lambda x: x[1])[0] if crash_types else None
\* (line 542): max returns the first of the items with the largest count.
CommonCrashType(crash_types) ==
    IF crash_types = <<>>
    THEN "None"
    ELSE LET i == CHOOSE j \in 1..Len(crash_types) :
                    /\ \A k \in 1..Len(crash_types) :
                          crash_types[k].count <= crash_types[j].count
                    /\ \A k \in 1..(j - 1) :
                          crash_types[k].count < crash_types[j].count
         IN crash_types[i].type

\* What generate_report returns when it has nothing to analyse (lines 497
\* and 509): a message.
NoReport(message) ==
    [message |-> message, total_crashes |-> 0, recent_crashes_7_days |-> 0,
     crash_types |-> <<>>, common_crash_type |-> "None"]

\* generate_report, lines 496-546.  g_appended, g_emitted and g_quiet are
\* history: the number of completed appends, the records handed to
\* log_crash_event, and whether no append was in progress, when the report
\* was made.
Report(content) ==
    IF content = <<>>
    THEN NoReport("No crash data found")
    ELSE IF CrashSections(content) = <<>>
         THEN NoReport("No crashes recorded")
         ELSE LET crashes == CrashSections(content)
                  crash_types == CrashTypes(crashes, Len(crashes))
              IN [message |-> "",
                  total_crashes |-> Len(crashes),
                  recent_crashes_7_days |->
                      Len(SelectSeq(crashes, IsRecent)),
                  crash_types |-> crash_types,
                  common_crash_type |-> CommonCrashType(crash_types)]

generate_report ==
    /\ report' = Report(sinkFile) @@
                 [g_appended |-> g_appended,
                  g_emitted  |-> emitted,
                  g_quiet    |-> \A w \in Writers : writers[w].pc = "idle"]
    /\ UNCHANGED <<loglite, config, psutil_available, win32_available, sinkDir, warned, evtVars, monitoring, emitted, now, procVars, tailVars, sinkFile,
                   writers, g_appended, sinkErrors>>

\* The record types of the three watchers and the caller each stems from
\* (lines 193, 277, 342).
Caller(type) ==
    CASE type = "process_termination" -> "process"
      [] type = "windows_event_log"   -> "event"
      [] type = "log_file_error"      -> "file"

\* log_crash_event(crash_data), lines 362-454, called while no other call is
\* in progress: the entry is appended to the output file.
log_crash_event(crash_data) ==
    /\ sinkDir
    /\ g_appended < MaxReportRecords
    /\ emitted' = Append(emitted, crash_data)
    /\ sinkFile' = sinkFile \o FormatEntry(Caller(crash_data.type),
                                            g_appended + 1,
                                            crash_data.timestamp)
    /\ g_appended' = g_appended + 1
    /\ UNCHANGED <<loglite, config, psutil_available, win32_available, sinkDir, warned,
                   evtVars, monitoring, now, procVars, tailVars, writers,
                   report, sinkErrors>>

\* The report variable before generate_report was called.
NotCalled ==
    NoReport("not called") @@
    [g_appended |-> 0, g_emitted |-> <<>>, g_quiet |-> TRUE]
(* ---------------- the monitor with external log forwarding ------------ *)

\* EnhancedCrashMonitor.log_crash_event (enhanced_crash_monitor.py, line
\* 51) takes crash_type, process_name and details.
EnhancedParams == 3

\* The inherited loops call self.log_crash_event(crash_data) (line 205 of
\* eve_crash_monitor.py) with one argument.
CallArgs == 1

\* The call binds when the arguments are as many as the parameters, else it
\* raises TypeError before the body of the method runs, whether or not the
\* LogLite peer is connected.
CallBinds(args, params) == args = params

\* Lines 190-205 of monitor_processes in an EnhancedCrashMonitor for one
\* terminated pid: self.log_crash_event resolves to the override; the
\* TypeError of the call is caught by the loop's except branch (lines
\* 226-228), so that "del self.eve_processes[pid]" (line 212) is not
\* reached.  The override writes to the logger and to LogLite, not to the
\* output file, so the call hands nothing to the sink even if it binds.
EnhancedPTerminate(t) ==
    /\ ploop[t].pc = "term"
    /\ ploop[t].terminated # {}
    /\ IF CallBinds(CallArgs, EnhancedParams)
       THEN /\ \E pid \in ploop[t].terminated :
                  ploop' = [ploop EXCEPT ![t].pc = "del", ![t].cur = pid]
       ELSE /\ ploop' = [ploop EXCEPT ![t].pc = "sleep", ![t].terminated = {},
                                      ![t].snapshot = {},
                                      ![t].wake = now + error_sleep,
                                      ![t].g_enum_failed = FALSE,
                                      ![t].g_cont = <<>>]
    /\ UNCHANGED <<loglite, config, psutil_available, win32_available, sinkDir, warned,
                   evtVars, monitoring, emitted, now, eve_processes, osProcs,
                   g_removed, tailVars, sinkVars>>
(* --------------------------- the LogLite client ----------------------- *)

\* The characters of a message: one that UTF-8 encodes in one byte and one
\* that it encodes in two.
Chars == {"a", "e_acute"}

\* str.encode('utf-8') on one character.
EncodeChar(c) == IF c = "a" THEN <<"61">> ELSE <<"c3", "a9">>

\* str.encode('utf-8').
RECURSIVE Encode(_)
Encode(s) == IF s = <<>> THEN <<>> ELSE EncodeChar(Head(s)) \o Encode(Tail(s))

\* s[a:b] of Python for 0 <= a <= b.
Slice(s, a, b) == SubSeq(s, a + 1, IF b < Len(s) THEN b ELSE Len(s))

\* The messages passed to log: every text of up to MaxMessage characters.
Messages == UNION {[1..n -> Chars] : n \in 0..MaxMessage}

\* One _Message as sendall puts it on the socket (lines 85-94): its type and
\* the bytes of its message field.
TextMessage(type, chunk) ==
    [type |-> type, message |-> Slice(Encode(chunk), 0, ChunkSize)]

\* Lines 103-106: the type of the message after the one just sent; offset
\* has been advanced past the chunk just sent.
NextType(offset, message) ==
    IF offset + ChunkSize >= Len(message)
    THEN "CONTINUATION_END_MESSAGE"
    ELSE "CONTINUATION_MESSAGE"

\* Lines 98-106: the loop of the else branch from offset on, type being
\* msg.type at the top of the loop.
RECURSIVE LargeLoop(_, _, _)
LargeLoop(message, offset, type) ==
    IF offset < Len(message)
    THEN <<TextMessage(type, Slice(message, offset, offset + ChunkSize))>>
         \o LargeLoop(message, offset + ChunkSize,
                      NextType(offset + ChunkSize, message))
    ELSE <<>>

\* LogLiteClient.log, lines 80-106: what one call sends.
log(connected, message) ==
    IF ~connected THEN <<>>
    ELSE IF Len(message) < ChunkSize
         THEN <<TextMessage("SIMPLE_MESSAGE", message)>>
         ELSE LargeLoop(message, 0, "LARGE_MESSAGE")

\* No client: the base monitor has none.
NoClient == [connected |-> FALSE, message |-> <<>>, pc |-> "idle", sent |-> <<>>]

\* A call of log on the client: the socket has sent what log sends.
LogCall ==
    /\ loglite.pc = "call"
    /\ loglite' = [loglite EXCEPT !.pc = "done",
                                  !.sent = log(loglite.connected, loglite.message)]
    /\ UNCHANGED <<config, psutil_available, win32_available, sinkDir, warned,
                   monitoring, emitted, now, procVars, tailVars, sinkVars,
                   evtVars>>
(* --------------------------- the orchestrator ------------------------- *)

\* A seeded defect of Spawn: the enable flag is not looked at.
SpawnAlways(loops, enabled) == [loops EXCEPT ![FreeSlot(loops)].pc = "sleep"]

\* threading.Thread(target=...).start() for one watcher (lines 467-483):
\* the thread takes the lowest free slot when the watcher is enabled.
Spawn(loops, enabled) ==
    IF enabled THEN [loops EXCEPT ![FreeSlot(loops)].pc = "sleep"] ELSE loops

\* A seeded defect of start_monitoring: the test of self.monitoring
\* (lines 458-460) is missing.
start_monitoring_unguarded ==
    /\ config.enable_process_monitoring => FreeSlot(ploop) # 0
    /\ config.enable_event_log_monitoring => FreeSlot(eloop) # 0
    /\ config.enable_log_file_monitoring => FreeSlot(tloop) # 0
    /\ monitoring' = TRUE
    /\ ploop' = Spawn(ploop, config.enable_process_monitoring)
    /\ eloop' = IF config.enable_event_log_monitoring
                THEN [eloop EXCEPT ![FreeSlot(eloop)].pc = "start"]
                ELSE eloop
    /\ tloop' = Spawn(tloop, config.enable_log_file_monitoring)
    /\ UNCHANGED <<loglite, config, psutil_available, win32_available, sinkDir, warned, emitted, now, eve_processes, osProcs,
                   g_removed, files, fileEvents, g_fresh, g_high, sinkVars,
                   eventLog>>

\* start_monitoring, lines 456-485: on a running monitor log a warning and
\* return; else set the flag and spawn one thread per enabled watcher.  A
\* spawned process or file thread starts at the top of its loop, a spawned
\* event log thread at the first line of monitor_event_logs.
start_monitoring ==
    IF monitoring
    THEN /\ warned' = TRUE
         /\ UNCHANGED <<loglite, config, psutil_available, win32_available, sinkDir, monitoring, emitted, now, procVars, tailVars,
                        sinkVars, evtVars>>
    ELSE /\ config.enable_process_monitoring => FreeSlot(ploop) # 0
         /\ config.enable_event_log_monitoring => FreeSlot(eloop) # 0
         /\ config.enable_log_file_monitoring => FreeSlot(tloop) # 0
         /\ monitoring' = TRUE
         /\ ploop' = Spawn(ploop, config.enable_process_monitoring)
         /\ eloop' = IF config.enable_event_log_monitoring
                     THEN [eloop EXCEPT ![FreeSlot(eloop)].pc = "start"]
                     ELSE eloop
         /\ tloop' = Spawn(tloop, config.enable_log_file_monitoring)
         /\ UNCHANGED <<loglite, config, psutil_available, win32_available, sinkDir, warned, emitted, now, eve_processes, osProcs,
                        g_removed, files, fileEvents, g_fresh, g_high,
                        sinkVars, eventLog>>

\* stop_monitoring, lines 487-490: clears the flag and returns.
stop_monitoring ==
    /\ monitoring' = FALSE
    /\ UNCHANGED <<loglite, config, psutil_available, win32_available, sinkDir, warned, emitted, now, procVars, tailVars, sinkVars,
                   evtVars>>

\* Time passes.
Tick ==
    /\ now + ClockStep <= MaxTime
    /\ now' = now + ClockStep
    /\ UNCHANGED <<loglite, config, psutil_available, win32_available, sinkDir, warned, monitoring, emitted, procVars, tailVars,
                   sinkVars, evtVars>>

(* ---------------------------- specifications -------------------------- *)

\* default_config, lines 50-52: every watcher enabled.
DefaultConfig ==
    [enable_process_monitoring   |-> TRUE,
     enable_event_log_monitoring |-> TRUE,
     enable_log_file_monitoring  |-> TRUE]

\* The configurations load_config can return (lines 57-65): the defaults,
\* or the defaults with one watcher disabled in the configuration file.
Configs ==
    { DefaultConfig,
      [DefaultConfig EXCEPT !.enable_process_monitoring = FALSE],
      [DefaultConfig EXCEPT !.enable_event_log_monitoring = FALSE],
      [DefaultConfig EXCEPT !.enable_log_file_monitoring = FALSE] }

\* EveOnlineCrashMonitor.__init__ (lines 36-42) but for the configuration,
\* and the environment at that time: a platform with both optional
\* modules (lines 19-33), no process of the game, its log directory with
\* one log of the game and two logs of the monitor, the directory of the
\* output file but no output file yet, an empty event log.
InitState ==
    /\ psutil_available = TRUE
    /\ win32_available = TRUE
    /\ sinkDir = TRUE
    /\ warned = FALSE
    /\ monitoring = FALSE
    /\ emitted = <<>>
    /\ now = 0
    /\ eve_processes = <<>>
    /\ ploop = [s \in Slots |-> NoProcThread]
    /\ osProcs = {}
    /\ g_removed = {}
    /\ tloop = [s \in Slots |-> NoFileThread]
    /\ files = [f \in LogFileSet |-> IF f = game_log THEN <<>> ELSE <<"o", "k", "\n">>]
    /\ fileEvents = 0
    /\ g_fresh = {}
    /\ g_high = [f \in LogFileSet |-> 0]
    /\ sinkFile = <<>>
    /\ writers = [w \in Writers |-> NoCall]
    /\ report = NotCalled
    /\ g_appended = 0
    /\ sinkErrors = 0
    /\ eloop = [s \in Slots |-> NoEventThread]
    /\ eventLog = <<>>

\* The monitor constructed with the default configuration.
Init == config = DefaultConfig /\ loglite = NoClient /\ InitState

\* The monitor constructed with any of the configurations.
InitAnyConfig == config \in Configs /\ loglite = NoClient /\ InitState

\* The monitor with its process watcher.
NextProc ==
    \/ start_monitoring
    \/ stop_monitoring
    \/ Tick
    \/ \E p \in Pids : ProcStart(p)
    \/ \E p \in Pids : ProcExit(p)
    \/ \E t \in Slots : PBegin(t)
    \/ \E t \in Slots : PEnumFail(t)
    \/ \E t \in Slots : PArrive(t)
    \/ \E t \in Slots : PTerminate(t)
    \/ \E t \in Slots : PDelete(t)
    \/ \E t \in Slots : PUpdate(t)

SpecProc == Init /\ [][NextProc]_vars

\* The monitor with its log file watcher.
NextTail ==
    \/ start_monitoring
    \/ stop_monitoring
    \/ Tick
    \/ FileAppend(game_log)
    \/ FileRotate(game_log)
    \/ \E t \in Slots : TBegin(t)
    \/ \E t \in Slots : TStat(t)
    \/ \E t \in Slots : TRead(t)
    \/ \E t \in Slots : TSleep(t)

SpecTail == Init /\ [][NextTail]_vars

\* The event sink with its two concurrent callers and a reader.
NextSink ==
    \/ \E w \in Writers : SinkOpen(w)
    \/ \E w \in Writers : SinkSeek(w)
    \/ \E w \in Writers : SinkWrite(w)
    \/ generate_report

SpecSink == Init /\ [][NextSink]_vars

\* The monitor with its event log watcher.
NextEvt ==
    \/ start_monitoring
    \/ stop_monitoring
    \/ Tick
    \/ \E kind \in EventKinds : EventLogged(kind)
    \/ \E t \in Slots : EStart(t)
    \/ \E t \in Slots : EPoll(t)
    \/ \E t \in Slots : EPollFail(t)
    \/ \E t \in Slots : EDeliver(t)
    \/ \E t \in Slots : EAdvance(t)

SpecEvt == Init /\ [][NextEvt]_vars

\* The monitor constructed with any of the configurations, in an
\* environment that holds one of each thing to report: the game running,
\* an error line in its log, an error entry of the game in the event log.
InitOrch ==
    /\ config \in Configs
    /\ psutil_available = TRUE
    /\ win32_available = TRUE
    /\ sinkDir = TRUE
    /\ warned = FALSE
    /\ monitoring = FALSE
    /\ emitted = <<>>
    /\ now = 0
    /\ eve_processes = <<>>
    /\ ploop = [s \in Slots |-> NoProcThread]
    /\ osProcs = Pids
    /\ g_removed = {}
    /\ tloop = [s \in Slots |-> NoFileThread]
    /\ files = [f \in LogFileSet |->
                   IF f = game_log THEN <<"F", "A", "T", "A", "L", " ", "E", "R", "R", "O", "R", "\n">> ELSE <<"o", "k", "\n">>]
    /\ fileEvents = 0
    /\ g_fresh = {}
    /\ g_high = [f \in LogFileSet |-> 0]
    /\ sinkFile = <<>>
    /\ writers = [w \in Writers |-> NoCall]
    /\ report = NotCalled
    /\ g_appended = 0
    /\ sinkErrors = 0
    /\ loglite = NoClient
    /\ eloop = [s \in Slots |-> NoEventThread]
    /\ eventLog = << [RecordNumber  |-> 1,
                      TimeGenerated |-> 0,
                      EventType     |-> "ERROR",
                      SourceName    |-> <<"E", "x", "e", "F", "i", "l", "e">>,
                      EventID       |-> 1000] >>

\* After each start, a stop can catch a loop in the middle of a poll that
\* ends one sleep later, and that sleep ends one step of the clock later.
DrainLimit == MaxTime + 2 * MaxLoops * ClockStep

\* Time passes beyond the horizon of Tick while the monitor is stopped and
\* a loop is still in time.sleep.
Drain ==
    /\ ~monitoring
    /\ now >= MaxTime
    /\ now < DrainLimit
    /\ \E t \in Slots : tloop[t].pc = "sleep" /\ tloop[t].wake > now
    /\ now' = now + ClockStep
    /\ UNCHANGED <<loglite, config, psutil_available, win32_available, sinkDir, warned, monitoring, emitted, procVars, tailVars,
                   sinkVars, evtVars>>

\* One step of the log file thread in slot t.
TStep(t) == TBegin(t) \/ TStat(t) \/ TRead(t) \/ TSleep(t)

\* The orchestrator with its log file watcher, files unchanged.
NextOrch ==
    \/ start_monitoring
    \/ stop_monitoring
    \/ Tick
    \/ Drain
    \/ \E t \in Slots : TBegin(t)
    \/ \E t \in Slots : TStat(t)
    \/ \E t \in Slots : TRead(t)
    \/ \E t \in Slots : TSleep(t)

\* Threads are scheduled fairly, OS calls return, time passes.
SpecOrch ==
    /\ InitOrch
    /\ [][NextOrch]_vars
    /\ WF_vars(Tick)
    /\ WF_vars(Drain)
    /\ \A t \in Slots : WF_vars(TStep(t))


\* The platforms that lack psutil, win32evtlog or both (lines 19-33).
Platforms ==
    { [psutil |-> FALSE, win32 |-> FALSE],
      [psutil |-> FALSE, win32 |-> TRUE],
      [psutil |-> TRUE,  win32 |-> FALSE] }

\* The monitor constructed with the default configuration on one of these
\* platforms, in an environment that holds one of each thing to report:
\* the game running, an error line in its log, an error entry of the game
\* in the event log.
InitPlat ==
    /\ config = DefaultConfig
    /\ \E pf \in Platforms : /\ psutil_available = pf.psutil
                             /\ win32_available = pf.win32
    /\ sinkDir = TRUE
    /\ warned = FALSE
    /\ monitoring = FALSE
    /\ emitted = <<>>
    /\ now = 0
    /\ eve_processes = <<>>
    /\ ploop = [s \in Slots |-> NoProcThread]
    /\ osProcs = Pids
    /\ g_removed = {}
    /\ tloop = [s \in Slots |-> NoFileThread]
    /\ files = [f \in LogFileSet |->
                   IF f = game_log THEN <<"c", "r", "a", "s", "h", "\n">> ELSE <<"o", "k", "\n">>]
    /\ fileEvents = 0
    /\ g_fresh = {}
    /\ g_high = [f \in LogFileSet |-> 0]
    /\ sinkFile = <<>>
    /\ writers = [w \in Writers |-> NoCall]
    /\ report = NotCalled
    /\ g_appended = 0
    /\ sinkErrors = 0
    /\ loglite = NoClient
    /\ eloop = [s \in Slots |-> NoEventThread]
    /\ eventLog = << [RecordNumber  |-> 1,
                      TimeGenerated |-> 0,
                      EventType     |-> "ERROR",
                      SourceName    |-> <<"E", "x", "e", "F", "i", "l", "e">>,
                      EventID       |-> 1000] >>

\* One step of the process thread in slot t.
PStep(t) ==
    \/ PUnavailable(t) \/ PBegin(t) \/ PArrive(t) \/ PTerminate(t)
    \/ PDelete(t) \/ PUpdate(t)

\* One step of the event log thread in slot t in which the platform calls
\* succeed.
EStep(t) == EStart(t) \/ EPoll(t) \/ EDeliver(t) \/ EAdvance(t)

\* The monitor started and left running, with its three watchers; the game
\* can exit.
NextPlat ==
    \/ start_monitoring
    \/ Tick
    \/ \E p \in Pids : ProcExit(p)
    \/ \E t \in Slots : PUnavailable(t)
    \/ \E t \in Slots : PBegin(t)
    \/ \E t \in Slots : PArrive(t)
    \/ \E t \in Slots : PTerminate(t)
    \/ \E t \in Slots : PDelete(t)
    \/ \E t \in Slots : PUpdate(t)
    \/ \E t \in Slots : EStart(t)
    \/ \E t \in Slots : EPoll(t)
    \/ \E t \in Slots : EPollFail(t)
    \/ \E t \in Slots : EDeliver(t)
    \/ \E t \in Slots : EAdvance(t)
    \/ \E t \in Slots : TBegin(t)
    \/ \E t \in Slots : TStat(t)
    \/ \E t \in Slots : TRead(t)
    \/ \E t \in Slots : TSleep(t)

\* Threads are scheduled fairly, OS calls return, time passes.
SpecPlat ==
    /\ InitPlat
    /\ [][NextPlat]_vars
    /\ WF_vars(Tick)
    /\ \A t \in Slots : /\ WF_vars(PStep(t))
                        /\ WF_vars(EStep(t))
                        /\ WF_vars(TStep(t))

\* The event sink with its two concurrent callers and a reader, on a
\* system where opening and writing the output file can fail.
NextSinkFail ==
    \/ \E w \in Writers : SinkOpen(w)
    \/ \E w \in Writers : SinkOpenFail(w)
    \/ \E w \in Writers : SinkSeek(w)
    \/ \E w \in Writers : SinkWrite(w)
    \/ \E w \in Writers : SinkWriteFail(w)
    \/ generate_report

SpecSinkFail == Init /\ [][NextSinkFail]_vars

\* A fresh installation: the monitor constructed with the default
\* configuration, its output path in a directory that exists or in one
\* that does not exist yet.
InitFresh ==
    /\ config = DefaultConfig
    /\ psutil_available = TRUE
    /\ win32_available = TRUE
    /\ sinkDir \in BOOLEAN
    /\ warned = FALSE
    /\ monitoring = FALSE
    /\ emitted = <<>>
    /\ now = 0
    /\ eve_processes = <<>>
    /\ ploop = [s \in Slots |-> NoProcThread]
    /\ osProcs = {}
    /\ g_removed = {}
    /\ tloop = [s \in Slots |-> NoFileThread]
    /\ files = [f \in LogFileSet |-> IF f = game_log THEN <<>> ELSE <<"o", "k", "\n">>]
    /\ fileEvents = 0
    /\ g_fresh = {}
    /\ g_high = [f \in LogFileSet |-> 0]
    /\ sinkFile = <<>>
    /\ writers = [w \in Writers |-> NoCall]
    /\ report = NotCalled
    /\ g_appended = 0
    /\ sinkErrors = 0
    /\ loglite = NoClient
    /\ eloop = [s \in Slots |-> NoEventThread]
    /\ eventLog = <<>>

\* The event sink of a fresh installation with its two callers and a
\* reader; opening the output file fails only for want of its directory.
NextFresh ==
    \/ \E w \in Writers : SinkOpen(w)
    \/ \E w \in Writers : SinkOpenNoDir(w)
    \/ \E w \in Writers : SinkSeek(w)
    \/ \E w \in Writers : SinkWrite(w)
    \/ generate_report

SpecFresh == InitFresh /\ [][NextFresh]_vars

\* The time at which reports are made: the clock has run for eight days.
ReportTime == 8 * Day

\* The timestamps of the records handed to log_crash_event: six days, seven
\* days and a half, and eight days before the report, and a text that is
\* not a timestamp.
Stamps ==
    { isoformat(ReportTime - 6 * Day),
      isoformat(ReportTime - (7 * Day + Day \div 2)),
      isoformat(ReportTime - 8 * Day),
      NotIso }

\* The type values of the three record variants (lines 193, 277, 342).
RecordTypes == {"process_termination", "windows_event_log", "log_file_error"}

\* The records handed to log_crash_event, as far as generate_report can
\* tell them apart.
CrashData == [type : RecordTypes, timestamp : Stamps]

\* The monitor constructed with the default configuration, eight days on
\* the clock, no output file yet.
InitReport ==
    /\ config = DefaultConfig
    /\ psutil_available = TRUE
    /\ win32_available = TRUE
    /\ sinkDir = TRUE
    /\ warned = FALSE
    /\ monitoring = FALSE
    /\ emitted = <<>>
    /\ now = ReportTime
    /\ eve_processes = <<>>
    /\ ploop = [s \in Slots |-> NoProcThread]
    /\ osProcs = {}
    /\ g_removed = {}
    /\ tloop = [s \in Slots |-> NoFileThread]
    /\ files = [f \in LogFileSet |-> IF f = game_log THEN <<>> ELSE <<"o", "k", "\n">>]
    /\ fileEvents = 0
    /\ g_fresh = {}
    /\ g_high = [f \in LogFileSet |-> 0]
    /\ sinkFile = <<>>
    /\ writers = [w \in Writers |-> NoCall]
    /\ report = NotCalled
    /\ g_appended = 0
    /\ sinkErrors = 0
    /\ loglite = NoClient
    /\ eloop = [s \in Slots |-> NoEventThread]
    /\ eventLog = <<>>

\* Records are appended to the output file one call after the other, and
\* reports are made of it.
NextReport ==
    \/ \E crash_data \in CrashData : log_crash_event(crash_data)
    \/ generate_report

SpecReport == InitReport /\ [][NextReport]_vars

\* The monitor started and left running with its log file watcher, on a
\* system where opening or reading a log can fail; the game appends to its
\* log.
NextTailFail ==
    \/ start_monitoring
    \/ Tick
    \/ FileAppend(game_log)
    \/ \E t \in Slots : TBegin(t)
    \/ \E t \in Slots : TStat(t)
    \/ \E t \in Slots : TRead(t)
    \/ \E t \in Slots : TReadFail(t)
    \/ \E t \in Slots : TSleep(t)

SpecTailFail == Init /\ [][NextTailFail]_vars

\* The monitor started and left running with its log file watcher; the game
\* writes lines to its log in two parts, between polls of the watcher.
NextSplit ==
    \/ start_monitoring
    \/ Tick
    \/ FileWriteFirst(game_log)
    \/ FileWriteRest(game_log)
    \/ \E t \in Slots : TBegin(t)
    \/ \E t \in Slots : TStat(t)
    \/ \E t \in Slots : TRead(t)
    \/ \E t \in Slots : TSleep(t)

SpecSplit == Init /\ [][NextSplit]_vars

\* The monitor constructed with the default configuration while the game
\* runs and its log holds one error line.
InitCancel ==
    /\ config = DefaultConfig
    /\ psutil_available = TRUE
    /\ win32_available = TRUE
    /\ sinkDir = TRUE
    /\ warned = FALSE
    /\ monitoring = FALSE
    /\ emitted = <<>>
    /\ now = 0
    /\ eve_processes = <<>>
    /\ ploop = [s \in Slots |-> NoProcThread]
    /\ osProcs = Pids
    /\ g_removed = {}
    /\ tloop = [s \in Slots |-> NoFileThread]
    /\ files = [f \in LogFileSet |->
                   IF f = game_log THEN RotatedContent ELSE <<"o", "k", "\n">>]
    /\ fileEvents = 0
    /\ g_fresh = {}
    /\ g_high = [f \in LogFileSet |-> 0]
    /\ sinkFile = <<>>
    /\ writers = [w \in Writers |-> NoCall]
    /\ report = NotCalled
    /\ g_appended = 0
    /\ sinkErrors = 0
    /\ loglite = NoClient
    /\ eloop = [s \in Slots |-> NoEventThread]
    /\ eventLog = <<>>

\* The first call of start_monitoring.
FirstStart == (\A t \in Slots : ploop[t].pc = "none") /\ start_monitoring

\* The monitor started once and stopped at any time, with its process and
\* log file watchers; the game can exit.
NextCancel ==
    \/ FirstStart
    \/ stop_monitoring
    \/ Tick
    \/ \E p \in Pids : ProcExit(p)
    \/ \E t \in Slots : PBegin(t)
    \/ \E t \in Slots : PArrive(t)
    \/ \E t \in Slots : PTerminate(t)
    \/ \E t \in Slots : PDelete(t)
    \/ \E t \in Slots : PUpdate(t)
    \/ \E t \in Slots : TBegin(t)
    \/ \E t \in Slots : TStat(t)
    \/ \E t \in Slots : TRead(t)
    \/ \E t \in Slots : TSleep(t)

\* Threads are scheduled fairly and OS calls return.
SpecCancel ==
    /\ InitCancel
    /\ [][NextCancel]_vars
    /\ \A t \in Slots : /\ WF_vars(PStep(t))
                        /\ WF_vars(TStep(t))

\* An EnhancedCrashMonitor started and left running, with its process
\* watcher; the game starts and exits.
NextEnhanced ==
    \/ start_monitoring
    \/ Tick
    \/ \E p \in Pids : ProcStart(p)
    \/ \E p \in Pids : ProcExit(p)
    \/ \E t \in Slots : PBegin(t)
    \/ \E t \in Slots : PArrive(t)
    \/ \E t \in Slots : EnhancedPTerminate(t)
    \/ \E t \in Slots : PUpdate(t)

SpecEnhanced == Init /\ [][NextEnhanced]_vars

\* The event sink with its two concurrent callers and a reader, while the
\* operator starts and stops the monitor.
NextSinkOps ==
    \/ start_monitoring
    \/ stop_monitoring
    \/ \E w \in Writers : SinkOpen(w)
    \/ \E w \in Writers : SinkSeek(w)
    \/ \E w \in Writers : SinkWrite(w)
    \/ generate_report

SpecSinkOps == Init /\ [][NextSinkOps]_vars

\* The monitor constructed with the default configuration on a platform
\* that has both optional modules, in an environment that holds one of each
\* thing to report: the game running, an error line in its log, an error
\* entry of the game in the event log.
InitAll ==
    /\ config = DefaultConfig
    /\ psutil_available = TRUE
    /\ win32_available = TRUE
    /\ sinkDir = TRUE
    /\ warned = FALSE
    /\ monitoring = FALSE
    /\ emitted = <<>>
    /\ now = 0
    /\ eve_processes = <<>>
    /\ ploop = [s \in Slots |-> NoProcThread]
    /\ osProcs = Pids
    /\ g_removed = {}
    /\ tloop = [s \in Slots |-> NoFileThread]
    /\ files = [f \in LogFileSet |->
                   IF f = game_log THEN RotatedContent ELSE <<"o", "k", "\n">>]
    /\ fileEvents = 0
    /\ g_fresh = {}
    /\ g_high = [f \in LogFileSet |-> 0]
    /\ sinkFile = <<>>
    /\ writers = [w \in Writers |-> NoCall]
    /\ report = NotCalled
    /\ g_appended = 0
    /\ sinkErrors = 0
    /\ loglite = NoClient
    /\ eloop = [s \in Slots |-> NoEventThread]
    /\ eventLog = << [RecordNumber  |-> 1,
                      TimeGenerated |-> 0,
                      EventType     |-> "ERROR",
                      SourceName    |-> <<"E", "x", "e", "F", "i", "l", "e">>,
                      EventID       |-> 1000] >>

\* The monitor started and left running with its three watchers; the game
\* can exit.
NextAll ==
    \/ start_monitoring
    \/ Tick
    \/ \E p \in Pids : ProcExit(p)
    \/ \E t \in Slots : PBegin(t)
    \/ \E t \in Slots : PArrive(t)
    \/ \E t \in Slots : PTerminate(t)
    \/ \E t \in Slots : PDelete(t)
    \/ \E t \in Slots : PUpdate(t)
    \/ \E t \in Slots : EStart(t)
    \/ \E t \in Slots : EPoll(t)
    \/ \E t \in Slots : EDeliver(t)
    \/ \E t \in Slots : EAdvance(t)
    \/ \E t \in Slots : TBegin(t)
    \/ \E t \in Slots : TStat(t)
    \/ \E t \in Slots : TRead(t)
    \/ \E t \in Slots : TSleep(t)

SpecAll == InitAll /\ [][NextAll]_vars

\* A LogLiteClient, connected or not, about to be called with any of the
\* messages.
InitLogLite ==
    /\ config = DefaultConfig
    /\ loglite \in {[connected |-> c, message |-> m, pc |-> "call", sent |-> <<>>] :
                       c \in BOOLEAN, m \in Messages}
    /\ InitState

NextLogLite == LogCall

SpecLogLite == InitLogLite /\ [][NextLogLite]_vars
(* ------------------------------ properties ---------------------------- *)

\* The records of the process watcher among those handed to the sink.
IsTermination(r) == r.type = "process_termination"

\* The records of the log file watcher among those handed to the sink.
IsLogMatch(r) == r.type = "log_file_error"

\* C1: every tracked lifetime (insertion to removal) produces exactly one
\* ProcessTermination record: no entry has more than one record emitted
\* for it, and every entry that was removed had exactly one.
C1_ExactlyOneRecordPerLifetime ==
    /\ \A p \in DOMAIN eve_processes : eve_processes[p].g_records <= 1
    /\ g_removed \subseteq {1}

\* C2: no ProcessTermination record is emitted for an id by a poll cycle
\* that had already enumerated the process table when the id was inserted
\* into the tracked map; a record comes only from a strictly later cycle.
C2_NoFalseArrivalCrash ==
    \A i \in 1..Len(emitted) :
        IsTermination(emitted[i]) => ~emitted[i].g_early

\* C3: in every ProcessTermination record runtime is detection time minus
\* start of tracking, suspected_crash is true exactly when runtime is
\* strictly below the threshold of 30, and a runtime of 10 is suspected.
C3_ThresholdBoundary ==
    \A i \in 1..Len(emitted) :
        IsTermination(emitted[i]) =>
            /\ emitted[i].runtime_seconds = emitted[i].timestamp - emitted[i].start_time
            /\ emitted[i].suspected_crash = (emitted[i].runtime_seconds < 30)
            /\ (emitted[i].runtime_seconds = 10 => emitted[i].suspected_crash)

\* C3, its boundary case: a record whose runtime equals the threshold and
\* that is not suspected.
C3_Witness ==
    \E i \in 1..Len(emitted) :
        /\ IsTermination(emitted[i])
        /\ emitted[i].runtime_seconds = crash_detection_threshold
        /\ ~emitted[i].suspected_crash

\* C4: a report made while no append is in progress counts as many records
\* as appends have completed.
C4_ReportCountsAppends ==
    (report.message # "not called" /\ report.g_quiet)
        => report.total_crashes = report.g_appended

\* A text that is a sequence of whole record blocks.
RECURSIVE WholeBlocks(_)
WholeBlocks(content) ==
    \/ content = <<>>
    \/ \E w \in Writers : \E n \in 1..MaxAppends :
          /\ Len(LogEntry(w, n)) <= Len(content)
          /\ SubSeq(content, 1, Len(LogEntry(w, n))) = LogEntry(w, n)
          /\ WholeBlocks(SubSeq(content, Len(LogEntry(w, n)) + 1, Len(content)))

\* C5: in every reachable sink content each record block is contiguous and
\* complete: the content is a sequence of whole blocks, no line of one
\* record inside or in place of part of another.
C5_BlocksContiguous == WholeBlocks(sinkFile)

\* C6: a poll of a file that was polled to completion before and has not
\* changed since emits no LogPatternMatch record.
C6_IdempotentRepoll ==
    \A i \in 1..Len(emitted) :
        IsLogMatch(emitted[i]) => ~emitted[i].g_repoll

\* C7: when the stat of a file finds its size smaller than its checkpoint,
\* that step resets the file's checkpoint to 0.
C7_RotationResetsCheckpoint ==
    [][\A t \in Slots : \A f \in LogFileSet :
          ( /\ tloop[t].pc = "scan"
            /\ tloop[t].todo # <<>>
            /\ Head(tloop[t].todo) = f
            /\ tloop'[t].todo = Tail(tloop[t].todo)
            /\ ~Excluded(f)
            /\ Len(files[f]) < GetPosition(tloop[t].file_positions, f) )
          => GetPosition(tloop'[t].file_positions, f) = 0]_vars

\* C8: one read emits at most one LogPatternMatch record for any one line
\* of a file.
C8_AtMostOneRecordPerLine ==
    [][\A i, j \in (Len(emitted) + 1)..Len(emitted') :
          ( /\ IsLogMatch(emitted'[i])
            /\ IsLogMatch(emitted'[j])
            /\ emitted'[i].file = emitted'[j].file
            /\ emitted'[i].line_number = emitted'[j].line_number )
          => i = j]_vars

\* C9: a file the configuration excludes, by exact name or by a substring
\* of its name, is never opened for reading and never has a checkpoint.
C9_ConfigExcludedNeverRead ==
    \A t \in Slots : \A f \in LogFileSet :
        ConfigExcluded(f) =>
            /\ f \notin DOMAIN tloop[t].file_positions
            /\ ~(tloop[t].pc = "read" /\ tloop[t].cur = f)

\* C10: the checkpoint a read of a file starts from is never below the
\* highest checkpoint stored for the file so far, except that it may be 0
\* when the file is now smaller than that checkpoint.
C10_CheckpointMonotone ==
    \A t \in Slots :
        tloop[t].pc = "read" =>
            \/ tloop[t].last >= g_high[tloop[t].cur]
            \/ (tloop[t].last = 0 /\ tloop[t].size < g_high[tloop[t].cur])

\* The loops of a watcher that have been spawned.
Spawned(loops) == {s \in Slots : loops[s].pc # "none"}

\* The loops of a watcher that are alive: spawned and not returned.
Alive(loops) ==
    {s \in Slots : loops[s].pc \notin {"none", "exited", "disabled"}}

\* C11: start on a running monitor spawns no loop (no step taken while the
\* flag is set does), and the step that logs the "already running" warning
\* changes nothing else: flag, tracked map, checkpoints, threads.
C11_StartOnRunningIsNoOp ==
    [][ /\ monitoring =>
              /\ Spawned(ploop') = Spawned(ploop)
              /\ Spawned(tloop') = Spawned(tloop)
              /\ Spawned(eloop') = Spawned(eloop)
        /\ (monitoring /\ ~warned /\ warned') =>
              UNCHANGED <<loglite, config, psutil_available, win32_available, sinkDir, monitoring, emitted, now, procVars,
                          tailVars, sinkVars, evtVars>> ]_vars

\* C11: the monitor is running with a process tracked and start was called
\* again.
C11_Witness == warned /\ monitoring /\ eve_processes # <<>>

\* C12: at most one loop per watcher is alive at any time.
C12_SingleLoopPerWatcher ==
    /\ Cardinality(Alive(ploop)) <= 1
    /\ Cardinality(Alive(tloop)) <= 1
    /\ Cardinality(Alive(eloop)) <= 1

C14_FlagStateMachine ==
    /\ ~monitoring
    /\ [][ /\ (~monitoring /\ monitoring') => start_monitoring
           /\ (monitoring /\ ~monitoring') => stop_monitoring
           /\ (~monitoring /\ stop_monitoring) => ~monitoring' ]_vars

\* C14: the flag was cleared and set again (a loop has returned), a poll
\* has just failed, and the monitor is still running.
C14_Witness ==
    /\ monitoring
    /\ \E t \in Slots : ploop[t].g_enum_failed
    /\ \E t \in Slots : ploop[t].pc = "exited"

\* C15: two polls of the process watcher never overlap: at most one of its
\* loops is between the enumeration and the sleep of a cycle.
C15_PollsNeverOverlap == Cardinality(MidCycle) <= 1

\* The records of the event log watcher among those handed to the sink.
IsEventError(r) == r.type = "windows_event_log"

\* C16: a watcher has a spawned loop only if its enable flag is set, has
\* one whenever the monitor runs with its flag set, and a watcher whose
\* flag is clear hands no record to the sink.
C16_EnableFlags ==
    /\ Spawned(ploop) # {} => config.enable_process_monitoring
    /\ Spawned(eloop) # {} => config.enable_event_log_monitoring
    /\ Spawned(tloop) # {} => config.enable_log_file_monitoring
    /\ monitoring =>
          /\ config.enable_process_monitoring => Spawned(ploop) # {}
          /\ config.enable_event_log_monitoring => Spawned(eloop) # {}
          /\ config.enable_log_file_monitoring => Spawned(tloop) # {}
    /\ \A i \in 1..Len(emitted) :
          /\ IsTermination(emitted[i]) => config.enable_process_monitoring
          /\ IsEventError(emitted[i]) => config.enable_event_log_monitoring
          /\ IsLogMatch(emitted[i]) => config.enable_log_file_monitoring

\* C16: the monitor was started with the log file watcher disabled: the
\* other watchers have their loops, time has passed, nothing was reported.
C16_Witness ==
    /\ ~config.enable_log_file_monitoring
    /\ monitoring
    /\ Spawned(ploop) # {}
    /\ Spawned(eloop) # {}
    /\ now > 0
    /\ emitted = <<>>

C18_NoRecordFromFailedEnumeration ==
    \A i \in 1..Len(emitted) :
        IsTermination(emitted[i]) => ~emitted[i].g_enum_failed

IsCrashEventAnySource(event) ==
    /\ event.EventType = "ERROR"
    /\ \/ Contains(<<"e", "v", "e">>, Lower(event.SourceName))
       \/ Contains(<<"e", "x", "e", "f", "i", "l", "e">>, Lower(event.SourceName))
       \/ event.EventID \in {1000, 1001}

\* C20: a successful poll returns a record for an entry of the event log
\* if and only if the entry is newer than the cursor, has error severity,
\* and has a source name containing 'eve' or 'exefile' or one of the
\* identifiers 1000 and 1001.
C20_EventFilter ==
    [][ \A t \in Slots :
          (monitoring /\ EPoll(t)) =>
              \A k \in 1..Len(eventLog) :
                  ( /\ eventLog[k].TimeGenerated > eloop[t].last_check
                    /\ IsCrashEventAnySource(eventLog[k]) )
                  <=> \E i \in 1..Len(eloop'[t].batch) :
                          eloop'[t].batch[i].g_record = eventLog[k].RecordNumber
      ]_vars


\* C21: without win32evtlog no event-log poll returns an entry or fails;
\* without psutil no process loop ever polls, tracks or reports; and once
\* the monitor runs the watchers go on: the log file watcher reports the
\* error line, the event log loop completes its polls (and, if it has its
\* module and no platform call fails, reports the error entry), a process
\* thread without psutil has returned, and the process watcher with psutil
\* reports the exit of a tracked process once its next poll is due.
C21_PlatformAbsence ==
    /\ [](~win32_available =>
             /\ \A t \in Slots : eloop[t].batch = <<>> /\ ~eloop[t].g_failed
             /\ \A i \in 1..Len(emitted) : ~IsEventError(emitted[i]))
    /\ [](~psutil_available =>
             /\ \A t \in Slots : ploop[t].pc \in {"none", "sleep", "disabled"}
             /\ eve_processes = <<>>
             /\ \A i \in 1..Len(emitted) : ~IsTermination(emitted[i]))
    /\ monitoring ~>
          /\ \E i \in 1..Len(emitted) : IsLogMatch(emitted[i])
          /\ \E t \in Slots : eloop[t].pc = "sleep" /\ eloop[t].wake > 0
          /\ win32_available =>
                \/ \E i \in 1..Len(emitted) : IsEventError(emitted[i])
                \/ \E t \in Slots : eloop[t].g_failed
          /\ ~psutil_available => \E t \in Slots : ploop[t].pc = "disabled"
    /\ \A p \in Pids :
          (psutil_available /\ p \in DOMAIN eve_processes /\ p \notin osProcs
              /\ \E t \in Slots : ploop[t].pc = "sleep"
                                   /\ ploop[t].wake <= MaxTime)
           ~> (\E i \in 1..Len(emitted) :
                  IsTermination(emitted[i]) /\ emitted[i].pid = p)

\* C21: on a platform with neither module the process thread has returned
\* disabled, the event log thread has completed a poll that returned
\* nothing, and the log file watcher has reported the error line.
C21_Witness ==
    /\ ~psutil_available
    /\ ~win32_available
    /\ \E t \in Slots : ploop[t].pc = "disabled"
    /\ \E t \in Slots : eloop[t].pc = "sleep" /\ eloop[t].wake > 0
    /\ \E i \in 1..Len(emitted) : IsLogMatch(emitted[i])

\* C22: a call of log_crash_event that fails logs one error, leaves the
\* output file as it was and returns to its caller, which goes on with its
\* next call; and no line of a failed call is ever in the output file.
C22_WriteFailureDropsRecord ==
    /\ [][ \A w \in Writers :
              writers'[w].g_dropped # writers[w].g_dropped =>
                 /\ sinkErrors' = sinkErrors + 1
                 /\ sinkFile' = sinkFile
                 /\ writers'[w].pc = "idle"
                 /\ writers'[w].n = writers[w].n + 1 ]_vars
    /\ [](\A w \in Writers : \A i \in 1..Len(sinkFile) :
             sinkFile[i].writer = w => sinkFile[i].n \notin writers[w].g_dropped)

\* C23: once the first call of log_crash_event on a fresh installation has
\* returned, no other call being in progress, the output file exists and
\* holds the whole entry of that call, whether or not the directory of the
\* output path existed.
C23_FreshSinkCreated ==
    \A w \in Writers :
        (/\ writers[w].n = 1
         /\ \A v \in Writers : writers[v].pc = "idle"
         /\ \A v \in Writers \ {w} : writers[v].n = 0)
        => sinkFile = LogEntry(w, 1)

\* The count a report's type mapping gives for a type: 0 if it has no item
\* for it.
CountOf(crash_types, type) ==
    IF \E i \in 1..Len(crash_types) : crash_types[i].type = type
    THEN crash_types[CHOOSE i \in 1..Len(crash_types) :
                        crash_types[i].type = type].count
    ELSE 0

\* The sum of the counts of a report's type mapping.
RECURSIVE SumCounts(_)
SumCounts(crash_types) ==
    IF crash_types = <<>>
    THEN 0
    ELSE Head(crash_types).count + SumCounts(Tail(crash_types))

\* C24: in a report made of records appended one after the other to an
\* empty sink, the type mapping gives for each of the three variants the
\* number of records of that variant that were appended, and its counts sum
\* to the reported total.
C24_ReportTypeCounts ==
    report.message = "" =>
        /\ \A type \in RecordTypes :
              CountOf(report.crash_types, CrashTypeText(Caller(type)))
                 = Cardinality({i \in 1..Len(report.g_emitted) :
                                   report.g_emitted[i].type = type})
        /\ SumCounts(report.crash_types) = report.total_crashes

\* C25: the recent count of a report is the number of appended records
\* whose timestamp is in ISO format and lies no more than seven days before
\* the report; every appended record, whatever its timestamp, is counted in
\* the total.
C25_ReportRecency ==
    report.message = "" =>
        /\ report.recent_crashes_7_days
              = Cardinality({i \in 1..Len(report.g_emitted) :
                    /\ report.g_emitted[i].timestamp.text = "iso"
                    /\ now - report.g_emitted[i].timestamp.time
                          <= RecentDays * Day})
        /\ report.total_crashes >= Len(report.g_emitted)

\* The position in the sink file of the first "Crash Type:" line with the
\* given text.
FirstOfType(type) ==
    CHOOSE i \in 1..Len(sinkFile) :
        /\ sinkFile[i].kind = "type" /\ sinkFile[i].text = type
        /\ \A k \in 1..(i - 1) :
              ~(sinkFile[k].kind = "type" /\ sinkFile[k].text = type)

\* C26: the most common type of a report is a type of its mapping whose
\* count no other type exceeds, and the first record of any other type
\* with the same count lies after its first record in the sink file.
C26_MostCommonType ==
    report.message = "" =>
        LET types == {report.crash_types[i].type :
                         i \in 1..Len(report.crash_types)}
            common == report.common_crash_type
        IN /\ common \in types
           /\ \A d \in types :
                 /\ CountOf(report.crash_types, d)
                       <= CountOf(report.crash_types, common)
                 /\ (d # common /\ CountOf(report.crash_types, d)
                                     = CountOf(report.crash_types, common))
                       => FirstOfType(common) < FirstOfType(d)

\* C26: a report of three records in which two types are level at the
\* largest count, and the one reported as most common is the one that
\* entered the mapping first.
C26_Witness ==
    /\ report.message = ""
    /\ Len(report.g_emitted) = MaxReportRecords
    /\ \E i, j \in 1..Len(report.crash_types) :
          /\ i < j
          /\ report.crash_types[i].count = report.crash_types[j].count
          /\ report.crash_types[i].type = report.common_crash_type
          /\ \A k \in 1..Len(report.crash_types) :
                report.crash_types[k].count <= report.crash_types[i].count

\* The eleven patterns, as a set.
ElevenPatterns ==
    { <<"e", "x", "c", "e", "p", "t", "i", "o", "n">>, <<"e", "r", "r", "o", "r">>, <<"c", "r", "a", "s", "h">>, <<"f", "a", "u", "l", "t">>, <<"v", "i", "o", "l", "a", "t", "i", "o", "n">>,
      <<"a", "c", "c", "e", "s", "s", " ", "v", "i", "o", "l", "a", "t", "i", "o", "n">>, <<"m", "e", "m", "o", "r", "y", " ", "e", "r", "r", "o", "r">>, <<"s", "t", "a", "c", "k", " ", "o", "v", "e", "r", "f", "l", "o", "w">>,
      <<"a", "s", "s", "e", "r", "t", "i", "o", "n", " ", "f", "a", "i", "l", "e", "d">>, <<"f", "a", "t", "a", "l", " ", "e", "r", "r", "o", "r">>, <<"u", "n", "h", "a", "n", "d", "l", "e", "d", " ", "e", "x", "c", "e", "p", "t", "i", "o", "n">> }

\* The step in which the log file thread in slot t reads a file.
ReadStep(t) == tloop[t].pc = "read" /\ tloop'[t].pc = "scan"

\* The records that this step hands to the sink.
NewRecords == SubSeq(emitted', Len(emitted) + 1, Len(emitted'))

\* C27: the pattern list is the eleven patterns; and every read yields a
\* record for a line it scans if and only if the lower-cased line contains
\* one of them: each line with a pattern has a record with its stripped
\* content, and each record stems from a scanned line that contains the
\* record's pattern in lower case.
C27_CaseInsensitiveMatch ==
    /\ [](/\ Len(error_patterns) = 11
          /\ {error_patterns[k] : k \in 1..Len(error_patterns)} = ElevenPatterns)
    /\ [][ \A t \in Slots : ReadStep(t) =>
              LET lines == Split(ReadFrom(files[tloop[t].cur], tloop[t].last))
              IN /\ \A i \in 1..Len(lines) :
                       (\E p \in ElevenPatterns : Contains(p, Lower(lines[i])))
                       <=> (\E k \in 1..Len(NewRecords) :
                              /\ NewRecords[k].content = Strip(lines[i])
                              /\ NewRecords[k].line_number = tloop[t].last + i)
                 /\ \A k \in 1..Len(NewRecords) :
                       \E i \in 1..Len(lines) :
                          /\ NewRecords[k].content = Strip(lines[i])
                          /\ NewRecords[k].pattern_matched \in ElevenPatterns
                          /\ Contains(NewRecords[k].pattern_matched,
                                      Lower(lines[i])) ]_vars

\* C27: the upper-case line "FATAL ERROR" has been reported for the pattern
\* "fatal error", and the line "ok" of the same file was read without a
\* record.
C27_Witness ==
    /\ \E i \in 1..Len(emitted) :
          /\ emitted[i].content = <<"F", "A", "T", "A", "L", " ", "E", "R", "R", "O", "R">>
          /\ emitted[i].pattern_matched = <<"f", "a", "t", "a", "l", " ", "e", "r", "r", "o", "r">>
    /\ Contains(<<"o", "k">>, files[game_log])
    /\ \A i \in 1..Len(emitted) : emitted[i].content # <<"o", "k">>
    /\ \E t \in Slots :
          /\ game_log \in DOMAIN tloop[t].file_positions
          /\ tloop[t].file_positions[game_log] = Len(files[game_log])

\* The application writes RotatedContent only when it rotates a log: a log
\* that begins with it has been rotated.
WasRotated(f) ==
    /\ Len(files[f]) >= Len(RotatedContent)
    /\ SubSeq(files[f], 1, Len(RotatedContent)) = RotatedContent

\* C28: a read of a log that was never rotated leaves the loop's
\* checkpoint at the end of what it has scanned, so that the next poll
\* starts where this one ended and no byte is scanned by two polls of the
\* loop.
C28_NoRereadUnderAppend ==
    [][ \A t \in Slots :
          (ReadStep(t) /\ ~WasRotated(tloop[t].cur)) =>
             GetPosition(tloop'[t].file_positions, tloop[t].cur)
                = Len(files[tloop[t].cur]) ]_vars

\* C29: the line_number of a record is the number, counted from 1 in the
\* whole file, of a line that has the record's content.
C29_LineNumberIsFileIndex ==
    [][ \A t \in Slots : ReadStep(t) =>
          LET file_lines == Split(files[tloop[t].cur])
          IN \A k \in 1..Len(NewRecords) :
                /\ NewRecords[k].line_number \in 1..Len(file_lines)
                /\ Strip(file_lines[NewRecords[k].line_number])
                      = NewRecords[k].content ]_vars

\* C30: a file is read only when the size that stat returned exceeds its
\* checkpoint, and the read leaves the checkpoint at that size, whatever
\* it found; the step that looks at a file whose size equals its
\* checkpoint does not open it and leaves the checkpoints as they are.
C30_CheckpointAdvance ==
    [][ \A t \in Slots :
          /\ ReadStep(t) =>
                /\ tloop[t].size > tloop[t].last
                /\ GetPosition(tloop'[t].file_positions, tloop[t].cur)
                      = tloop[t].size
          /\ ( /\ tloop[t].pc = "scan"
               /\ tloop[t].todo # <<>>
               /\ tloop'[t] # tloop[t]
               /\ Len(files[Head(tloop[t].todo)])
                     = GetPosition(tloop[t].file_positions, Head(tloop[t].todo)) )
              => /\ tloop'[t].pc = "scan"
                 /\ tloop'[t].file_positions = tloop[t].file_positions
                 /\ emitted' = emitted ]_vars

\* C30: a loop has read "ok" from the game's log, has its checkpoint at the
\* end of the log, and nothing was reported.
C30_Witness ==
    /\ emitted = <<>>
    /\ files[game_log] = <<"o", "k", "\n">>
    /\ \E t \in Slots :
          /\ game_log \in DOMAIN tloop[t].file_positions
          /\ tloop[t].file_positions[game_log] = Len(files[game_log])
          /\ tloop[t].pc = "sleep"
          /\ tloop[t].wake > log_file_sleep

\* C31: the step in which a read fails emits nothing, leaves every
\* checkpoint and the running flag as they were and leaves the loop in its
\* cycle with the files that follow still to do; and when a cycle with a
\* failed read has ended, every other watched file that the game has not
\* written to since has its checkpoint at its end.
C31_ReadErrorIsolated ==
    /\ [][ \A t \in Slots :
              tloop'[t].g_read_failed \ tloop[t].g_read_failed # {} =>
                 /\ emitted' = emitted
                 /\ tloop'[t].file_positions = tloop[t].file_positions
                 /\ monitoring' = monitoring
                 /\ tloop'[t].pc = "scan"
                 /\ tloop'[t].todo = Tail(tloop[t].todo) ]_vars
    /\ [](\A t \in Slots :
             (tloop[t].pc = "sleep" /\ tloop[t].g_read_failed # {}) =>
                \A g \in LogFileSet \ {game_log} :
                   (~Excluded(g) /\ g \notin tloop[t].g_read_failed) =>
                      GetPosition(tloop[t].file_positions, g) = Len(files[g]))
    /\ [](\A t \in Slots :
             (tloop[t].pc = "sleep" /\ game_log \notin tloop[t].g_read_failed
                /\ game_log \in g_fresh) =>
                   GetPosition(tloop[t].file_positions, game_log) > 0
                   \/ files[game_log] = <<>>)

\* C31: a cycle has ended in which the read of the first file failed, that
\* file has no checkpoint, and the game's log, which comes after it, was
\* read to its end and its error line reported.
C31_Witness ==
    \E t \in Slots :
        /\ tloop[t].pc = "sleep"
        /\ tloop[t].g_read_failed = {crash_monitor_log}
        /\ crash_monitor_log \notin DOMAIN tloop[t].file_positions
        /\ GetPosition(tloop[t].file_positions, game_log) = Len(files[game_log])
        /\ \E i \in 1..Len(emitted) : emitted[i].content = <<"F", "A", "T", "A", "L", " ", "E", "R", "R", "O", "R">>

\* The records the watcher has emitted for file f.
RecordsOf(f) ==
    SelectSeq(emitted, LAMBDA r : r.type = "log_file_error" /\ r.file = LogDir \o f)

\* The file watcher has read f to its end and f ends at a line boundary.
CaughtUp(t, f) ==
    /\ tloop[t].pc = "sleep"
    /\ files[f] # <<>>
    /\ OpenLine(files[f]) = <<>>
    /\ GetPosition(tloop[t].file_positions, f) = Len(files[f])

\* C32: once the watcher has read a log to its end, the records it has
\* emitted for that log are as many as a scan of the log's whole lines
\* gives, whether or not a line came in two parts read by two polls: no
\* line is reported twice and a pattern that lies across the two reads is
\* reported.
C32_SplitLineOnce ==
    \A t \in Slots :
        CaughtUp(t, game_log) =>
            Len(RecordsOf(game_log)) =
                Len(ScanLines(game_log, Split(files[game_log]), 0, 0, FALSE))

\* The step with which process loop t ends a cycle that ran to its end
\* (lines 214-224).
CycleEnd(t) ==
    /\ ploop[t].pc = "term"
    /\ ploop[t].terminated = {}
    /\ ploop'[t].pc = "sleep"

\* C33: when a process loop ends a cycle, the pids tracked in eve_processes
\* are exactly the pids its enumeration returned in that cycle.
C33_TrackedIsEnumerated ==
    [][ \A t \in Slots :
           CycleEnd(t) => DOMAIN eve_processes' = ploop[t].snapshot ]_vars

\* C34: a pid that a cycle of a process loop enumerated and found tracked
\* is not reported by that cycle, and when the cycle ends its entry is
\* still there with the start_time it had and the last_seen of this cycle.
C34_Continuation ==
    [][ \A t \in Slots :
          /\ (ploop[t].pc = "term" /\ ploop'[t].pc = "del") =>
                ploop'[t].cur \notin DOMAIN ploop[t].g_cont
          /\ CycleEnd(t) =>
                \A p \in DOMAIN ploop[t].g_cont :
                   /\ p \in DOMAIN eve_processes'
                   /\ eve_processes'[p].start_time = ploop[t].g_cont[p]
                   /\ eve_processes'[p].last_seen = now ]_vars

\* Loop t of a watcher is inside a poll.
InPoll(loops, t) == loops[t].pc \in {"arrive", "term", "del", "scan", "read"}

\* C35: a process or log file loop begins a poll only when it reads the
\* flag set and returns only from the top of its loop, when it reads the
\* flag clear; a loop that has returned begins no poll; and a poll that is
\* under way while the flag is clear comes to its end and hands what it
\* has detected to the sink (as long as the run stays below MaxRecords
\* records).
C35_CooperativeCancel ==
    /\ [][ \A t \in Slots :
             /\ (~InPoll(ploop, t) /\ InPoll(ploop', t)) => monitoring
             /\ (~InPoll(tloop, t) /\ InPoll(tloop', t)) => monitoring
             /\ (ploop[t].pc # "exited" /\ ploop'[t].pc = "exited") =>
                    (ploop[t].pc = "sleep" /\ ~monitoring)
             /\ (tloop[t].pc # "exited" /\ tloop'[t].pc = "exited") =>
                    (tloop[t].pc = "sleep" /\ ~monitoring)
             /\ ploop[t].pc = "exited" => ploop'[t].pc = "exited"
             /\ tloop[t].pc = "exited" => tloop'[t].pc = "exited" ]_vars
    /\ \A t \in Slots :
          /\ (InPoll(ploop, t) /\ ~monitoring)
                ~> (ploop[t].pc = "sleep" \/ Len(emitted) >= MaxRecords)
          /\ (InPoll(tloop, t) /\ ~monitoring) ~> (tloop[t].pc = "sleep")
          /\ (~monitoring /\ ploop[t].pc = "term" /\ ploop[t].terminated # {})
                ~> (\E i \in 1..Len(emitted) : IsTermination(emitted[i]))
          /\ (~monitoring /\ tloop[t].pc = "read" /\ tloop[t].cur = game_log)
                ~> (\E i \in 1..Len(emitted) : IsLogMatch(emitted[i]))

\* C35: the monitor is stopped while the process loop is in a poll that
\* has found a terminated pid and not reported it yet, and the log file loop
\* is in a poll about to read the game's log.
C35_Witness ==
    /\ ~monitoring
    /\ emitted = <<>>
    /\ \E t \in Slots : ploop[t].pc = "term" /\ ploop[t].terminated # {}
    /\ \E t \in Slots : tloop[t].pc = "read" /\ tloop[t].cur = game_log

\* The step with which process loop t ends a poll, in whichever way.
PollEnd(t) == ploop[t].pc \in {"term", "del"} /\ ploop'[t].pc = "sleep"

\* C36: in the monitor with log forwarding, as in the base monitor, when a
\* poll of the process loop that found pids terminated has ended, none of
\* them is tracked any more and each has a termination record handed to the
\* sink.
C36_EnhancedStillReports ==
    [][ \A t \in Slots :
          PollEnd(t) =>
             \A p \in TerminatedPids(eve_processes, ploop[t].snapshot) :
                /\ p \notin DOMAIN eve_processes'
                /\ \E i \in 1..Len(emitted') :
                      IsTermination(emitted'[i]) /\ emitted'[i].pid = p ]_vars

\* C37: whenever a loop of any of the three watchers goes to sleep at the
\* end of a poll, it sleeps for the configured check_interval.
C37_ConfiguredInterval ==
    [][ \A t \in Slots :
          /\ CycleEnd(t) => ploop'[t].wake = now + check_interval
          /\ (tloop[t].pc = "scan" /\ tloop'[t].pc = "sleep") =>
                tloop'[t].wake = now + check_interval
          /\ (eloop[t].pc = "deliver" /\ eloop'[t].pc = "sleep") =>
                eloop'[t].wake = now + check_interval ]_vars

\* C38: a step that changes the output file appends one whole record block
\* to what the file held; and a step of generate_report, start_monitoring
\* or stop_monitoring changes neither the output file nor eve_processes.
C38_AppendOnly ==
    [][ /\ sinkFile' # sinkFile =>
              \E w \in Writers : \E n \in 1..MaxAppends :
                  sinkFile' = sinkFile \o LogEntry(w, n)
        /\ (generate_report \/ start_monitoring \/ stop_monitoring) =>
              UNCHANGED <<sinkFile, eve_processes>> ]_vars

\* The fields of a record that are history of the model, not program data.
HistoryFields ==
    {"g_early", "g_enum_failed", "g_repoll", "g_record", "g_loop", "g_after_fail"}

\* The keys of the crash_data dict of each variant.
VariantFields(type) ==
    CASE type = "process_termination" ->
            {"type", "timestamp", "pid", "runtime_seconds", "start_time",
             "end_time", "memory_usage_mb", "suspected_crash"}
      [] type = "windows_event_log" ->
            {"type", "timestamp", "event_id", "source"}
      [] type = "log_file_error" ->
            {"type", "timestamp", "file", "line_number", "content",
             "pattern_matched"}
      [] OTHER -> {}

\* C39: every record handed to the sink has a timestamp (a time of the
\* clock) and the keys of exactly one variant, the one its type names; and
\* a step of a process loop hands over only process terminations, a step of
\* an event log loop only event log errors, a step of a log file loop only
\* log pattern matches.
C39_WellFormedRecords ==
    /\ [](\A i \in 1..Len(emitted) :
             /\ "type" \in DOMAIN emitted[i]
             /\ "timestamp" \in DOMAIN emitted[i]
             /\ emitted[i].timestamp \in 0..MaxTime
             /\ DOMAIN emitted[i] \ HistoryFields = VariantFields(emitted[i].type))
    /\ [][ /\ ploop' # ploop =>
                \A i \in 1..Len(NewRecords) : IsTermination(NewRecords[i])
           /\ eloop' # eloop =>
                \A i \in 1..Len(NewRecords) : IsEventError(NewRecords[i])
           /\ tloop' # tloop =>
                \A i \in 1..Len(NewRecords) : IsLogMatch(NewRecords[i]) ]_vars

\* C39: each of the three watchers has handed a record to the sink.
C39_Witness ==
    /\ \E i \in 1..Len(emitted) : IsTermination(emitted[i])
    /\ \E i \in 1..Len(emitted) : IsEventError(emitted[i])
    /\ \E i \in 1..Len(emitted) : IsLogMatch(emitted[i])

\* The message fields of a sequence of sent messages, joined in order.
RECURSIVE Payload(_)
Payload(sent) ==
    IF sent = <<>> THEN <<>> ELSE Head(sent).message \o Payload(Tail(sent))

\* C40: a call of log on a client that is not connected sends nothing; on a
\* connected client a message shorter than the chunk size is sent as one
\* SIMPLE message that carries it whole, and any other message as a LARGE
\* message, CONTINUATION messages and a final CONTINUATION_END message, none
\* longer than the chunk size, that carry the message between them.
C40_Chunking ==
    loglite.pc = "done" =>
        LET message == loglite.message
            sent == loglite.sent
        IN IF ~loglite.connected THEN sent = <<>>
           ELSE IF Len(message) < ChunkSize
           THEN /\ Len(sent) = 1
                /\ sent[1].type = "SIMPLE_MESSAGE"
                /\ sent[1].message = Encode(message)
           ELSE /\ Len(sent) >= 2
                /\ sent[1].type = "LARGE_MESSAGE"
                /\ sent[Len(sent)].type = "CONTINUATION_END_MESSAGE"
                /\ \A i \in 2..(Len(sent) - 1) :
                      sent[i].type = "CONTINUATION_MESSAGE"
                /\ \A i \in 1..Len(sent) : Len(sent[i].message) <= ChunkSize
                /\ Payload(sent) = Encode(message)
====
